---- MODULE Spec2Model ----
(***************************************************************************)
(* Model of the procedural audio core of the lucid application:            *)
(*   - bufferToWave  (src/components/IntentView.tsx), the PCM16 encoder    *)
(*   - the style dispatch of generateSynthesizedMusic                      *)
(*     (src/unnamed/part_000, the geminiService module)                    *)
(*                                                                         *)
(* Float samples are modelled as exact rationals num/SampleDen; the JS     *)
(* value NaN is a separate sample value.  Strings are sequences of UTF-16  *)
(* code units, so String.prototype.includes is a real substring search.    *)
(***************************************************************************)
EXTENDS Integers, Sequences, FiniteSets, TLC

VARIABLES
    abuffer,    \* the AudioBuffer handed to bufferToWave
    blob,       \* the bytes of the Blob bufferToWave returned (<<>> before)
    encPc,      \* "ready" | "returned" | "threw" : outcome of bufferToWave
    style,      \* the style descriptor handed to generateSynthesizedMusic
    profile,    \* the synthesis branch taken for it ("none" before the call)
    calls,      \* the invocations of generateSynthesizedMusic / handleMixing
    heap,       \* every audio node created so far, in creation order
    wires,      \* every connection made so far
    mixes,      \* the activations of handleMixing, in order of their start
    encCount,   \* how many calls of bufferToWave on the buffer have ended
    state,      \* IntentView: the IntentState App keeps (intentState)
    voiceMode,  \* IntentView: 'ai' | 'user'
    isLoading,  \* IntentView: the isLoading hook
    isPlaying,  \* IntentView: the isPlaying hook
    audioSource,\* IntentView: the audioSource hook (0 is null)
    sources,    \* the AudioBufferSourceNodes playBuffer made: on, loop, owner mounted
    tasks,      \* IntentView handlers waiting on a promise or a timer
    saved,      \* the wishes handed to onComplete
    hasShuffled,     \* RitualView hooks
    isShuffling,
    selectedIndices,
    isRevealing,
    loading,
    reading,    \* 0 is null, else the number of the request it answers
    timers,     \* RitualView timers and calls waiting
    requests,   \* the card lists handed to generateTarotReading
    stored,     \* today's reading in localStorage (0 is none)
    draws       \* history: how many times a third card was taken

encVars == <<abuffer, blob, encPc>>
styleVars == <<style, profile>>
audioVars == <<calls, heap, wires, mixes>>
baseVars == <<abuffer, blob, encPc, encCount, style, profile, audioVars>>
wizardVars == <<state, voiceMode, isLoading, isPlaying, audioSource, sources,
                tasks, saved>>
ritualVars == <<hasShuffled, isShuffling, selectedIndices, isRevealing, loading,
                reading, timers, requests, stored, draws>>
vars == <<abuffer, blob, encPc, style, profile, calls, heap, wires, mixes,
          encCount, wizardVars, ritualVars>>

----------------------------------------------------------------------------
(* Bounds of the model                                                     *)

MaxChannels == 3   \* AudioBuffers of 1..MaxChannels channels
MaxFrames == 2     \* AudioBuffers of 0..MaxFrames frames
SampleDen == 10    \* samples are the rationals num/SampleDen
MaxParts == 2      \* descriptors are up to MaxParts fragments long

----------------------------------------------------------------------------
(* JS numbers as they occur in bufferToWave                                *)

NaN == [nan |-> TRUE, num |-> 0]
Num(n) == [nan |-> FALSE, num |-> n]

\* Math.min / Math.max: NaN if either argument is NaN
MathMin(a, b) ==
    IF a.nan \/ b.nan THEN NaN ELSE IF a.num <= b.num THEN a ELSE b

MathMax(a, b) ==
    IF a.nan \/ b.nan THEN NaN ELSE IF a.num >= b.num THEN a ELSE b

\* mutation: the clamp left out
MutClamp(x) == x

\* Math.max(-1, Math.min(1, x))
Clamp(x) == MathMax(Num(-SampleDen), MathMin(Num(SampleDen), x))

\* truncation toward zero of the rational n/d (d > 0): what |0 does to a
\* finite number inside the int32 range
Trunc(n, d) == IF n >= 0 THEN n \div d ELSE -((-n) \div d)

\* the test  0.5 + sample < 0 ; any comparison with NaN is false
ScaleTest(sample) == (~sample.nan) /\ (SampleDen + 2 * sample.num < 0)

\* (0.5 + sample < 0 ? sample * 32768 : sample * 32767)|0 ; NaN|0 is 0
ScaleSample(sample) ==
    IF sample.nan THEN 0
    ELSE IF ScaleTest(sample) THEN Trunc(sample.num * 32768, SampleDen)
    ELSE Trunc(sample.num * 32767, SampleDen)

----------------------------------------------------------------------------
(* DataView over an ArrayBuffer: st = [view, pos, threw, written], written  *)
(* counting the stores into each byte                                      *)

Byte(v, k) ==
    CASE k = 0 -> v % 256
      [] k = 1 -> (v \div 256) % 256
      [] k = 2 -> (v \div 65536) % 256
      [] k = 3 -> (v \div 16777216) % 256

\* little-endian bytes of an unsigned value below 2^31 (every value the
\* encoder writes is; the wrap at 2^32 is never reached)
LE32(v) == <<Byte(v, 0), Byte(v, 1), Byte(v, 2), Byte(v, 3)>>

\* little-endian bytes of v modulo 2^16 (setUint16 and setInt16 store the
\* same two's-complement bytes)
LE16(v) == <<Byte(v % 65536, 0), Byte(v % 65536, 1)>>

\* store bytes at byte offset pos; a DataView throws RangeError when the
\* write does not fit in the buffer
PutBytes(st, bytes) ==
    IF st.threw THEN st
    ELSE IF st.pos + Len(bytes) > Len(st.view)
         THEN [st EXCEPT !.threw = TRUE]
    ELSE [st EXCEPT
            !.view = [k \in 1..Len(st.view) |->
                        IF k > st.pos /\ k <= st.pos + Len(bytes)
                        THEN bytes[k - st.pos] ELSE st.view[k]],
            !.written = [k \in 1..Len(st.view) |->
                        IF k > st.pos /\ k <= st.pos + Len(bytes)
                        THEN st.written[k] + 1 ELSE st.written[k]]]

Advance(st, n) == IF st.threw THEN st ELSE [st EXCEPT !.pos = st.pos + n]

\* function setUint16(data) { view.setUint16(pos, data, true); pos += 2; }
setUint16(st, data) == Advance(PutBytes(st, LE16(data)), 2)

\* function setUint32(data) { view.setUint32(pos, data, true); pos += 4; }
setUint32(st, data) == Advance(PutBytes(st, LE32(data)), 4)

----------------------------------------------------------------------------
(* bufferToWave(abuffer, len)                                              *)

RIFF == 1179011410      \* 0x46464952
WAVE == 1163280727      \* 0x45564157
FMT == 544501094        \* 0x20746d66
DATA == 1635017060      \* 0x61746164
HeaderBytes == 44

\* length = len * numOfChan * 2 + 44
WavLength(len, numOfChan) == len * numOfChan * 2 + HeaderBytes

\* mutation: bytes per sample left out of the byte rate
MutByteRate(sampleRate, numOfChan) == sampleRate * numOfChan

\* abuffer.sampleRate * 2 * numOfChan
ByteRate(sampleRate, numOfChan) == sampleRate * 2 * numOfChan

\* mutation: block align fixed at stereo
MutBlockAlign(numOfChan) == 4

\* numOfChan * 2
BlockAlign(numOfChan) == numOfChan * 2

\* length - 8
RiffLength(length) == length - 8

\* mutation: the chunk-length field itself counted as data
MutDataChunkLength(length, pos) == length - pos

\* length - pos - 4, evaluated with pos at the chunk-length field
DataChunkLength(length, pos) == length - pos - 4

\* the thirteen header writes, in program order
WriteHeader(st, numOfChan, sampleRate, length) ==
    LET s1 == setUint32(st, RIFF)
        s2 == setUint32(s1, RiffLength(length))
        s3 == setUint32(s2, WAVE)
        s4 == setUint32(s3, FMT)
        s5 == setUint32(s4, 16)
        s6 == setUint16(s5, 1)
        s7 == setUint16(s6, numOfChan)
        s8 == setUint32(s7, sampleRate)
        s9 == setUint32(s8, ByteRate(sampleRate, numOfChan))
        s10 == setUint16(s9, BlockAlign(numOfChan))
        s11 == setUint16(s10, 16)
        s12 == setUint32(s11, DATA)
    IN  setUint32(s12, DataChunkLength(length, s12.pos))

\* channels[i][offset]; an index past the end reads undefined, which the
\* arithmetic turns into NaN
ReadSample(channels, i, offset) ==
    IF offset < Len(channels[i + 1]) THEN channels[i + 1][offset + 1] ELSE NaN

\* mutation: the channels taken in the reverse order
MutWriteSample(st, channels, i, offset) ==
    Advance(PutBytes(st, LE16(ScaleSample(Clamp(
        ReadSample(channels, Len(channels) - 1 - i, offset))))), 2)

\* the body of the inner for loop for channel i
WriteSample(st, channels, i, offset) ==
    Advance(PutBytes(st, LE16(ScaleSample(Clamp(ReadSample(channels, i, offset))))), 2)

\* for(i = 0; i < numOfChan; i++) { ... }
RECURSIVE WriteFrame(_, _, _, _, _)
WriteFrame(st, channels, numOfChan, i, offset) ==
    IF st.threw \/ ~(i < numOfChan) THEN st
    ELSE WriteFrame(WriteSample(st, channels, i, offset),
                    channels, numOfChan, i + 1, offset)

\* mutation: the loop runs once more
MutLoopGuard(pos, length) == pos <= length

\* the guard of the outer loop
LoopGuard(pos, length) == pos < length

\* while(pos < length) { for ... ; offset++ }
RECURSIVE WriteFrames(_, _, _, _, _)
WriteFrames(st, channels, numOfChan, length, offset) ==
    IF st.threw \/ ~LoopGuard(st.pos, length) THEN st
    ELSE WriteFrames(WriteFrame(st, channels, numOfChan, 0, offset),
                     channels, numOfChan, length, offset + 1)

\* the whole function: the final DataView state
bufferToWave(buf, len) ==
    LET numOfChan == buf.numberOfChannels
        length == WavLength(len, numOfChan)
        st0 == [view |-> [k \in 1..length |-> 0], pos |-> 0, threw |-> FALSE,
                written |-> [k \in 1..length |-> 0]]
        hdr == WriteHeader(st0, numOfChan, buf.sampleRate, length)
    IN  WriteFrames(hdr, buf.channelData, numOfChan, length, 0)

----------------------------------------------------------------------------
(* The buffers the encoder is run on                                       *)

\* sample rates of the program's buffers: generateTTS decodes at 24000,
\* generateSynthesizedMusic and handleMixing render at 44100
SampleRates == {24000, 44100}

One == SampleDen

\* a test signal holding every kind of sample: silence, full scale both
\* ways, over-range both ways, the two sides of -0.5, -0.5 itself, a
\* positive fraction, and NaN
Signal ==
    << Num(0), Num(One), Num(-One), Num(One + One \div 2),
       Num(-(One + One \div 2)), Num(-((2 * One) \div 5)),
       Num(-(One \div 2)), Num(-((3 * One) \div 5)),
       Num((9 * One) \div 10), NaN >>

\* channel data: len consecutive samples of the signal from a phase
ChannelData(phase, len) ==
    [f \in 1..len |-> Signal[((phase + f - 1) % Len(Signal)) + 1]]

\* buffers of every shape; channel i starts at phase + i * stride in the
\* signal, so every sample value meets every position and every neighbour
AudioBuffers ==
    { [numberOfChannels |-> q[1], sampleRate |-> q[2], length |-> q[3],
       channelData |->
           [i \in 1..q[1] |-> ChannelData(q[4] + (i - 1) * q[5], q[3])]] :
        q \in (1..MaxChannels) \X SampleRates \X (0..MaxFrames)
                \X (0..(Len(Signal) - 1)) \X (0..(Len(Signal) - 1)) }

\* calls of bufferToWave followed on one buffer
MaxEncodes == 2

InitEnc ==
    /\ abuffer \in AudioBuffers
    /\ blob = <<>>
    /\ encPc = "ready"
    /\ encCount = 0

\* bufferToWave(buffer, buffer.length), as handleMixing and handleSave call it
\* mutation: the clamped samples are stored back into the buffer
MutBufferToWave ==
    /\ encCount < MaxEncodes
    /\ LET r == bufferToWave(abuffer, abuffer.length) IN
         /\ encPc' = IF r.threw THEN "threw" ELSE "returned"
         /\ blob' = IF r.threw THEN <<>> ELSE r.view
    /\ abuffer' = [abuffer EXCEPT !.channelData =
                      [i \in DOMAIN @ |-> [f \in DOMAIN @[i] |-> Clamp(@[i][f])]]]
    /\ encCount' = encCount + 1
    /\ UNCHANGED <<style, profile, audioVars, wizardVars, ritualVars>>

BufferToWave ==
    /\ encCount < MaxEncodes
    /\ LET r == bufferToWave(abuffer, abuffer.length) IN
         /\ encPc' = IF r.threw THEN "threw" ELSE "returned"
         /\ blob' = IF r.threw THEN <<>> ELSE r.view
    /\ encCount' = encCount + 1
    /\ UNCHANGED <<abuffer, style, profile, audioVars, wizardVars, ritualVars>>

----------------------------------------------------------------------------
(* Style dispatch of generateSynthesizedMusic(style, durationSeconds)      *)

\* String.prototype.includes on sequences of UTF-16 code units
Includes(s, k) ==
    \E i \in 0..(Len(s) - Len(k)) : SubSeq(s, i + 1, i + Len(k)) = k

\* the search strings of the if / else-if chain
KwNvWu == <<22899, 24043>>                           \* U+5973 U+5DEB
KwWitch == <<87, 105, 116, 99, 104>>                 \* 'Witch'
KwShuiJing == <<27700, 26230>>                       \* U+6C34 U+6676
KwCrystal == <<67, 114, 121, 115, 116, 97, 108>>     \* 'Crystal'
KwAmbient == <<65, 109, 98, 105, 101, 110, 116>>     \* 'Ambient'
KwRouHe == <<26580, 21644>>                          \* U+67D4 U+548C
KwBinaural == <<66, 105, 110, 97, 117, 114, 97, 108>> \* 'Binaural'
KwNaoBo == <<33041, 27874>>                          \* U+8111 U+6CE2
Kw8bit == <<56, 98, 105, 116>>                       \* '8bit'
KwGameboy == <<71, 97, 109, 101, 98, 111, 121>>      \* 'Gameboy'

\* mutation: the first search string of the Witch branch left out
MutIsWitch(s) == Includes(s, KwWitch)

\* mutation: the Crystal branch also matches the lower-case spelling
MutIsCrystal(s) ==
    \/ Includes(s, KwShuiJing)
    \/ Includes(s, KwCrystal)
    \/ Includes(s, <<99, 114, 121, 115, 116, 97, 108>>)

\* the conditions of the five branches
IsWitch(s) == Includes(s, KwNvWu) \/ Includes(s, KwWitch)
IsCrystal(s) == Includes(s, KwShuiJing) \/ Includes(s, KwCrystal)
IsAmbient(s) == Includes(s, KwAmbient) \/ Includes(s, KwRouHe)
IsBinaural(s) == Includes(s, KwBinaural) \/ Includes(s, KwNaoBo)
IsEightbit(s) == Includes(s, Kw8bit) \/ Includes(s, KwGameboy)

\* mutation: the Crystal branch tested before the Witch branch
MutResolveProfile(s) ==
    IF IsCrystal(s) THEN "Crystal"
    ELSE IF IsWitch(s) THEN "Witch"
    ELSE IF IsAmbient(s) THEN "Ambient"
    ELSE IF IsBinaural(s) THEN "Binaural"
    ELSE IF IsEightbit(s) THEN "Eightbit"
    ELSE "DefaultNoise"

\* which branch of the chain runs
ResolveProfile(s) ==
    IF IsWitch(s) THEN "Witch"
    ELSE IF IsCrystal(s) THEN "Crystal"
    ELSE IF IsAmbient(s) THEN "Ambient"
    ELSE IF IsBinaural(s) THEN "Binaural"
    ELSE IF IsEightbit(s) THEN "Eightbit"
    ELSE "DefaultNoise"

\* the six styles of the music-gen step's buttons
UiAmbient == <<36229>> \o KwRouHe \o <<32>> \o KwAmbient
UiBinaural == KwNaoBo \o <<32>> \o KwBinaural
UiRain == <<30333, 22122, 38899, 32, 82, 97, 105, 110>>
UiGameboy == KwGameboy \o <<32>> \o Kw8bit
UiWitch == KwNvWu \o <<26790, 22659, 32>> \o KwWitch
UiCrystal == KwShuiJing \o <<30103, 24840, 32>> \o KwCrystal
UiStyles == {UiAmbient, UiBinaural, UiRain, UiGameboy, UiWitch, UiCrystal}

\* lower-case spellings, which the chain does not search for
LcWitch == <<119, 105, 116, 99, 104>>                 \* 'witch'
LcCrystal == <<99, 114, 121, 115, 116, 97, 108>>      \* 'crystal'
LcAmbient == <<97, 109, 98, 105, 101, 110, 116>>      \* 'ambient'
LcBinaural == <<98, 105, 110, 97, 117, 114, 97, 108>> \* 'binaural'
LcGameboy == <<103, 97, 109, 101, 98, 111, 121>>      \* 'gameboy'

\* other text
TxtDream == <<20043, 26790>>                         \* U+4E4B U+68A6
TxtEnergy == <<32, 69, 110, 101, 114, 103, 121>>     \* ' Energy'
TxtUnknown == <<26410, 30693, 39118, 26684>>         \* U+672A U+77E5 U+98CE U+683C
TxtWit == <<87, 105, 116>>                           \* 'Wit'
TxtCh == <<99, 104>>                                 \* 'ch'

Fragments ==
    { KwNvWu, KwWitch, KwShuiJing, KwCrystal, KwAmbient, KwRouHe,
      KwBinaural, KwNaoBo, Kw8bit, KwGameboy,
      LcWitch, LcCrystal, LcAmbient, LcBinaural, LcGameboy,
      TxtDream, TxtEnergy, TxtUnknown, TxtWit, TxtCh }

\* concatenations of at most n fragments (the empty string included: it is
\* the initial selectedMusicStyle)
RECURSIVE Concats(_)
Concats(n) ==
    IF n = 0 THEN {<<>>}
    ELSE LET shorter == Concats(n - 1)
         IN  shorter \cup {d \o f : d \in shorter, f \in Fragments}

\* the descriptors: free text and the six button styles
Descriptors == Concats(MaxParts) \cup UiStyles

InitStyle ==
    /\ style \in Descriptors
    /\ profile = "none"

\* generateSynthesizedMusic(style, ...): the branch the chain takes
GenerateSynthesizedMusic ==
    /\ profile = "none"
    /\ profile' = ResolveProfile(style)
    /\ UNCHANGED <<style, abuffer, blob, encPc, audioVars, encCount, wizardVars, ritualVars>>

\* a style button of the music-gen step: selectedMusicStyle becomes one of
\* the six button styles and the next call dispatches on it
SelectStyle ==
    /\ profile # "none"
    /\ style' \in UiStyles
    /\ profile' = "none"
    /\ UNCHANGED <<abuffer, blob, encPc, audioVars, encCount, wizardVars, ritualVars>>

----------------------------------------------------------------------------
(* Specifications                                                          *)

\* playback sources alive or referred to at a time
MaxSources == 2

\* audio values: null, a narration, a music preview, a mixed container
Audio(kind, s, mode, from) == [kind |-> kind, style |-> s, mode |-> mode, from |-> from]
NullAudio == Audio("null", <<>>, "", "")

\* App.tsx: the initial intentState, also what handleSave resets to
InitialIntentState ==
    [step |-> "input", generatedVoiceAudio |-> NullAudio,
     generatedMusicAudio |-> NullAudio, selectedMusicStyle |-> <<>>,
     mixingMode |-> "subliminal", finalSubliminalAudio |-> NullAudio]

NoSource == [on |-> FALSE, loop |-> FALSE, live |-> FALSE]


\* no wizard exists: the values the other specifications keep
WizardIdle ==
    /\ state = InitialIntentState
    /\ voiceMode = "ai"
    /\ isLoading = FALSE
    /\ isPlaying = FALSE
    /\ audioSource = 0
    /\ sources = [n \in 1..MaxSources |-> NoSource]
    /\ tasks = <<>>
    /\ saved = <<>>

\* no ritual view exists: the values the other specifications keep
RitualIdle ==
    /\ hasShuffled = FALSE
    /\ isShuffling = FALSE
    /\ selectedIndices = <<>>
    /\ isRevealing = FALSE
    /\ loading = FALSE
    /\ reading = 0
    /\ timers = <<>>
    /\ requests = <<>>
    /\ stored = 0
    /\ draws = 0


\* no audio graph exists and no call is in progress
AudioIdle ==
    /\ calls = <<>>
    /\ heap = <<>>
    /\ wires = {}
    /\ mixes = <<>>

\* the encoder alone
InitEncoder ==
    /\ InitEnc
    /\ WizardIdle
    /\ RitualIdle
    /\ style = <<>>
    /\ profile = "none"
    /\ AudioIdle

NextEncoder == BufferToWave

SpecEncoder == InitEncoder /\ [][NextEncoder]_vars

\* the style dispatch alone
InitResolver ==
    /\ InitStyle
    /\ abuffer = [numberOfChannels |-> 1, sampleRate |-> 24000, length |-> 0,
                  channelData |-> <<ChannelData(0, 0)>>]
    /\ blob = <<>>
    /\ encPc = "ready"
    /\ encCount = 0
    /\ WizardIdle
    /\ RitualIdle
    /\ AudioIdle

NextResolver == GenerateSynthesizedMusic \/ SelectStyle

SpecResolver == InitResolver /\ [][NextResolver]_vars

----------------------------------------------------------------------------
(* Reading a container back, as a PCM16 WAV reader does                    *)

Encoded == encPc = "returned"

U16At(b, off) == b[off + 1] + 256 * b[off + 2]

\* (fields of the encoder's containers stay below 2^31)
U32At(b, off) ==
    b[off + 1] + 256 * b[off + 2] + 65536 * b[off + 3] + 16777216 * b[off + 4]

S16At(b, off) ==
    IF U16At(b, off) >= 32768 THEN U16At(b, off) - 65536 ELSE U16At(b, off)

Bytes(b, off, n) == SubSeq(b, off + 1, off + n)

DecChannels(b) == U16At(b, 22)
DecSampleRate(b) == U32At(b, 24)
DecFrames(b) == U32At(b, 40) \div (DecChannels(b) * 2)
DecSample(b, c, f) == S16At(b, 44 + (f * DecChannels(b) + c) * 2)

\* channel c (from 0), frame f (from 0) of the source buffer
SrcSample(c, f) == abuffer.channelData[c + 1][f + 1]

SrcPositions ==
    (0..(abuffer.numberOfChannels - 1)) \X (0..(abuffer.length - 1))

\* the 16-bit value stored for channel c, frame f
Stored(c, f) == S16At(blob, 44 + (f * abuffer.numberOfChannels + c) * 2)

\* numerator over SampleDen of the clamped sample scaled as the encoder's
\* contract says: negative side by 32768, non-negative side by 32767
ContractScaled(x) ==
    LET n == IF x.num > SampleDen THEN SampleDen
             ELSE IF x.num < -SampleDen THEN -SampleDen ELSE x.num
    IN  IF n < 0 THEN n * 32768 ELSE n * 32767

Abs(n) == IF n < 0 THEN -n ELSE n

----------------------------------------------------------------------------
(* Claims about the encoder (specification SpecEncoder)                    *)

\* C1: for a buffer of 1 or 2 channels the container starts with the 44-byte
\* little-endian header 'RIFF' .. 'WAVE' 'fmt ' 16 1 channels sampleRate
\* sampleRate*2*channels channels*2 16 'data'.
C1_HeaderLayout ==
    (Encoded /\ abuffer.numberOfChannels \in {1, 2}) =>
        /\ Len(blob) >= 44
        /\ Bytes(blob, 0, 4) = <<82, 73, 70, 70>>
        /\ Bytes(blob, 8, 4) = <<87, 65, 86, 69>>
        /\ Bytes(blob, 12, 4) = <<102, 109, 116, 32>>
        /\ U32At(blob, 16) = 16
        /\ U16At(blob, 20) = 1
        /\ U16At(blob, 22) = abuffer.numberOfChannels
        /\ U32At(blob, 24) = abuffer.sampleRate
        /\ U32At(blob, 28) = abuffer.sampleRate * 2 * abuffer.numberOfChannels
        /\ U16At(blob, 32) = abuffer.numberOfChannels * 2
        /\ U16At(blob, 34) = 16
        /\ Bytes(blob, 36, 4) = <<100, 97, 116, 97>>

C1_Witness ==
    /\ Encoded
    /\ abuffer.numberOfChannels = 2
    /\ abuffer.sampleRate = 44100
    /\ abuffer.length > 0
    /\ U32At(blob, 28) = 176400

\* C2: a buffer of F frames and C channels encodes to exactly 44 + F*C*2
\* bytes; bytes 4-7 hold that total minus 8 and bytes 40-43 hold F*C*2.
C2_Lengths ==
    Encoded =>
        LET dataLen == abuffer.length * abuffer.numberOfChannels * 2 IN
        /\ Len(blob) = 44 + dataLen
        /\ U32At(blob, 4) = Len(blob) - 8
        /\ U32At(blob, 40) = dataLen
        /\ U32At(blob, 40) = Len(blob) - 44

C2_Witness ==
    /\ Encoded
    /\ abuffer.numberOfChannels = 2
    /\ abuffer.length = 2
    /\ Len(blob) = 52
    /\ U32At(blob, 40) = 8

\* C3 (as stated): every sample is clamped to [-1, 1], then every negative
\* sample is multiplied by 32768 and every non-negative one by 32767, and
\* the product is truncated.
C3_AsymmetricScaling ==
    Encoded =>
        \A p \in SrcPositions :
            ~SrcSample(p[1], p[2]).nan =>
                Stored(p[1], p[2]) =
                    Trunc(ContractScaled(SrcSample(p[1], p[2])), SampleDen)

\* C4: whatever the sample, the stored value is inside [-32768, 32767] and
\* has not wrapped: +1 and above store 32767, -1 and below store -32768,
\* and no stored value has the opposite sign of its sample.
C4_NoWrapAround ==
    Encoded =>
        \A p \in SrcPositions :
            LET x == SrcSample(p[1], p[2])
                v == Stored(p[1], p[2])
            IN  /\ v >= -32768 /\ v <= 32767
                /\ (~x.nan /\ x.num >= SampleDen) => v = 32767
                /\ (~x.nan /\ x.num <= -SampleDen) => v = -32768
                /\ (~x.nan /\ x.num > 0) => v >= 0
                /\ (~x.nan /\ x.num < 0) => v <= 0

C4_Witness ==
    /\ Encoded
    /\ \E p \in SrcPositions :
         /\ SrcSample(p[1], p[2]).num > SampleDen
         /\ Stored(p[1], p[2]) = 32767
    /\ \E p \in SrcPositions :
         /\ SrcSample(p[1], p[2]).num < -SampleDen
         /\ Stored(p[1], p[2]) = -32768

\* C5 (as stated): read back as PCM16 WAV, the container has the source's
\* channel count, sample rate and frame count, and every decoded sample is
\* within 1 LSB of the clamped input scaled to the 16-bit range.
C5_RoundTrip ==
    Encoded =>
        /\ DecChannels(blob) = abuffer.numberOfChannels
        /\ DecSampleRate(blob) = abuffer.sampleRate
        /\ DecFrames(blob) = abuffer.length
        /\ \A p \in SrcPositions :
             ~SrcSample(p[1], p[2]).nan =>
                Abs(DecSample(blob, p[1], p[2]) * SampleDen
                      - ContractScaled(SrcSample(p[1], p[2]))) <= SampleDen

\* C6: a buffer of zero frames encodes without error to the bare 44-byte
\* header whose data length is 0.
C6_EmptyBuffer ==
    (encPc # "ready" /\ abuffer.length = 0) =>
        /\ encPc = "returned"
        /\ Len(blob) = 44
        /\ U32At(blob, 40) = 0
        /\ U32At(blob, 4) = 36

C6_Witness ==
    /\ Encoded
    /\ abuffer.length = 0
    /\ abuffer.numberOfChannels = 2
    /\ Len(blob) = 44

\* C7 (as stated): given a buffer of 0 or more than 2 channels the encoder
\* fails instead of producing a container.
C7_RejectsChannelLayout ==
    (encPc # "ready" /\ abuffer.numberOfChannels \notin {1, 2}) =>
        encPc = "threw"

\* C7 (amended): the encoder checks no channel layout; a buffer of more than
\* 2 channels is encoded like any other, to 44 + F*C*2 bytes whose header
\* carries that channel count and block align C*2.
C7_EncodesAnyLayout ==
    (encPc # "ready" /\ abuffer.numberOfChannels > 2) =>
        /\ encPc = "returned"
        /\ Len(blob) = 44 + abuffer.length * abuffer.numberOfChannels * 2
        /\ U16At(blob, 22) = abuffer.numberOfChannels
        /\ U16At(blob, 32) = abuffer.numberOfChannels * 2

C7_Witness ==
    /\ Encoded
    /\ abuffer.numberOfChannels = 3
    /\ abuffer.length = 2
    /\ Len(blob) = 56

----------------------------------------------------------------------------
(* Claims about the style dispatch (specification SpecResolver)            *)

Resolved == profile # "none"

Priority == <<"Witch", "Crystal", "Ambient", "Binaural", "Eightbit">>

\* does the descriptor satisfy the condition of the i-th branch
Matches(i, s) ==
    CASE i = 1 -> IsWitch(s)
      [] i = 2 -> IsCrystal(s)
      [] i = 3 -> IsAmbient(s)
      [] i = 4 -> IsBinaural(s)
      [] i = 5 -> IsEightbit(s)

\* C8: the descriptor resolves to the earliest profile, in the order Witch,
\* Crystal, Ambient, Binaural, Eightbit, whose keyword set it satisfies, and
\* to DefaultNoise when it satisfies none.
C8_FirstMatchWins ==
    Resolved =>
        LET hits == {i \in 1..5 : Matches(i, style)} IN
        IF hits = {} THEN profile = "DefaultNoise"
        ELSE profile = Priority[CHOOSE i \in hits : \A j \in hits : i <= j]

C8_Witness ==
    /\ style = KwCrystal \o KwWitch
    /\ Cardinality({i \in 1..5 : Matches(i, style)}) = 2
    /\ profile = "Witch"

\* the ten search strings of the chain
RegistryKeywords ==
    { <<22899, 24043>>, <<87, 105, 116, 99, 104>>,
      <<27700, 26230>>, <<67, 114, 121, 115, 116, 97, 108>>,
      <<65, 109, 98, 105, 101, 110, 116>>, <<26580, 21644>>,
      <<66, 105, 110, 97, 117, 114, 97, 108>>, <<33041, 27874>>,
      <<56, 98, 105, 116>>, <<71, 97, 109, 101, 98, 111, 121>> }

\* C9: a descriptor containing U+5973 U+5DEB or 'Witch' resolves to Witch
\* (so do U+5973 U+5DEB U+4E4B U+68A6 and 'Witch Energy'); a descriptor
\* containing no keyword of the registry (such as U+672A U+77E5 U+98CE
\* U+683C) resolves to DefaultNoise.
C9_WitchAndDefault ==
    Resolved =>
        /\ (Includes(style, <<22899, 24043>>)
              \/ Includes(style, <<87, 105, 116, 99, 104>>))
             => profile = "Witch"
        /\ style = <<22899, 24043, 20043, 26790>> => profile = "Witch"
        /\ style = <<87, 105, 116, 99, 104, 32, 69, 110, 101, 114, 103, 121>>
             => profile = "Witch"
        /\ (\A k \in RegistryKeywords : ~Includes(style, k))
             => profile = "DefaultNoise"
        /\ style = <<26410, 30693, 39118, 26684>> => profile = "DefaultNoise"

C9_Witness ==
    /\ style = KwNvWu \o TxtDream
    /\ profile = "Witch"

\* keyword sets in priority order, as the design text spells them
SpecKeywords ==
    << {LcWitch, KwNvWu}, {LcCrystal, KwShuiJing}, {LcAmbient, KwRouHe},
       {LcBinaural, KwNaoBo}, {Kw8bit, LcGameboy} >>

\* keyword sets in priority order, as the chain spells them
CodeKeywords ==
    << {<<87, 105, 116, 99, 104>>, <<22899, 24043>>},
       {<<67, 114, 121, 115, 116, 97, 108>>, <<27700, 26230>>},
       {<<65, 109, 98, 105, 101, 110, 116>>, <<26580, 21644>>},
       {<<66, 105, 110, 97, 117, 114, 97, 108>>, <<33041, 27874>>},
       {<<56, 98, 105, 116>>, <<71, 97, 109, 101, 98, 111, 121>>} >>

HasKeyword(sets, i, s) == \E k \in sets[i] : Includes(s, k)

\* C10 (as stated): a descriptor containing a keyword of a profile, spelled
\* 'witch', 'crystal', 'ambient', 'binaural', '8bit', 'gameboy' or in
\* Chinese, and no keyword of a higher-priority profile, resolves to that
\* profile.
C10_SpecSpelling ==
    Resolved =>
        \A i \in 1..5 :
            (HasKeyword(SpecKeywords, i, style)
               /\ \A j \in 1..(i - 1) : ~HasKeyword(SpecKeywords, j, style))
            => profile = Priority[i]

\* C10 (amended): matching is case-sensitive: a descriptor containing
\* 'Witch', 'Crystal', 'Ambient', 'Binaural', '8bit', 'Gameboy' or a Chinese
\* keyword, and no keyword of a higher-priority profile, resolves to that
\* profile; the lower-case spellings alone resolve to DefaultNoise.
C10_CodeSpelling ==
    Resolved =>
        /\ \A i \in 1..5 :
             (HasKeyword(CodeKeywords, i, style)
                /\ \A j \in 1..(i - 1) : ~HasKeyword(CodeKeywords, j, style))
             => profile = Priority[i]
        /\ style \in {LcWitch, LcCrystal, LcAmbient, LcBinaural, LcGameboy}
             => profile = "DefaultNoise"

C10_Witness ==
    /\ style = UiBinaural
    /\ HasKeyword(CodeKeywords, 4, style)
    /\ profile = "Binaural"

----------------------------------------------------------------------------
(* Web Audio values: exact rationals, JS numbers, Math.random              *)

RandDen == 3    \* Math.random() returns k/RandDen, k in 0..RandDen-1
TapeLen == 3    \* the random sequence of a call repeats after TapeLen draws
DurDen == 16    \* finite durations are multiples of 1/DurDen second

Q(n, d) == [n |-> n, d |-> d]
QAdd(a, b) == Q(a.n * b.d + b.n * a.d, a.d * b.d)
QSub(a, b) == Q(a.n * b.d - b.n * a.d, a.d * b.d)
QMul(a, b) == Q(a.n * b.n, a.d * b.d)
QEq(a, b) == a.n * b.d = b.n * a.d
QLe(a, b) == a.n * b.d <= b.n * a.d
QLt(a, b) == a.n * b.d < b.n * a.d

\* JS numbers that a duration can be
Fin(n) == [kind |-> "fin", q |-> Q(n, DurDen)]
JsNaN == [kind |-> "nan", q |-> Q(0, 1)]
JsInf == [kind |-> "inf", q |-> Q(0, 1)]
JsNegInf == [kind |-> "ninf", q |-> Q(0, 1)]

\* rate * x for a positive integer rate
JsTimes(rate, x) ==
    IF x.kind = "fin" THEN [kind |-> "fin", q |-> Q(rate * x.q.n, x.q.d)] ELSE x

\* conversion of a number to a WebIDL unsigned long: NaN and the infinities
\* give 0, a finite number is truncated toward zero and taken modulo 2^32.
\* The result is value + 2^32 when wrapped, value otherwise.
ToUint32(x) ==
    IF x.kind # "fin" THEN [wrapped |-> FALSE, value |-> 0]
    ELSE LET t == Trunc(x.q.n, x.q.d)
         IN  [wrapped |-> t < 0, value |-> t]

\* the k-th value Math.random() returns in a call (k from 0)
Random(tape, k) == Q(tape[(k % TapeLen) + 1], RandDen)

\* number of iterations of  for (i = 0; i < x; i++)  for a finite x
LoopCount(x) ==
    IF x.kind # "fin" \/ x.q.n <= 0 THEN 0
    ELSE (x.q.n + x.q.d - 1) \div x.q.d

----------------------------------------------------------------------------
(* Audio nodes and buffers                                                 *)

RenderRate == 44100
NoBuffer ==
    [numberOfChannels |-> 0, length |-> 0, sampleRate |-> 0,
     fill |-> "none", amp |-> Q(0, 1), firstDraw |-> 0]

\* a buffer made by createBuffer and filled from Math.random
NoiseBuffer(channels, length, fill, amp, firstDraw) ==
    [numberOfChannels |-> channels, length |-> length,
     sampleRate |-> RenderRate, fill |-> fill, amp |-> amp,
     firstDraw |-> firstDraw]

\* a node with the defaults of its interface
BlankNode(ctx, kind) ==
    [ctx |-> ctx, kind |-> kind, type |-> "",
     frequency |-> Q(0, 1), detune |-> Q(0, 1), gain |-> Q(0, 1),
     pan |-> Q(0, 1), buffer |-> NoBuffer, loop |-> FALSE,
     started |-> FALSE, events |-> <<>>,
     channels |-> 0, length |-> 0, sampleRate |-> 0]

\* new AudioContext({ sampleRate }) : its destination stands for the context
RealtimeContext(sampleRate) ==
    [BlankNode(0, "Destination") EXCEPT
        !.type = "realtime", !.sampleRate = sampleRate]

\* new OfflineAudioContext(channels, length, sampleRate)
OfflineContext(channels, length, sampleRate) ==
    [BlankNode(0, "Destination") EXCEPT
        !.type = "offline", !.channels = channels, !.length = length,
        !.sampleRate = sampleRate]

\* createOscillator() followed by the assignments the program makes
Oscillator(ctx, type, frequency, detune, events) ==
    [BlankNode(ctx, "Oscillator") EXCEPT
        !.type = type, !.frequency = frequency, !.detune = detune,
        !.events = events, !.started = TRUE]

Gain(ctx, gain, events) ==
    [BlankNode(ctx, "Gain") EXCEPT !.gain = gain, !.events = events]

Lowpass(ctx, frequency) ==
    [BlankNode(ctx, "BiquadFilter") EXCEPT
        !.type = "lowpass", !.frequency = frequency]

Panner(ctx, pan) == [BlankNode(ctx, "StereoPanner") EXCEPT !.pan = pan]

Convolver(ctx, buffer) ==
    [BlankNode(ctx, "Convolver") EXCEPT !.buffer = buffer]

BufferSource(ctx, buffer, loop) ==
    [BlankNode(ctx, "BufferSource") EXCEPT
        !.buffer = buffer, !.loop = loop, !.started = TRUE]

\* g = [heap, wires, draws]: the nodes and connections made so far and the
\* number of Math.random() calls the running invocation has made
New(g, node) == [g EXCEPT !.heap = Append(@, node)]
Latest(g) == Len(g.heap)
Connect(g, from, to, param) ==
    [g EXCEPT !.wires = @ \cup {[from |-> from, to |-> to, param |-> param]}]
Drawn(g, n) == [g EXCEPT !.draws = @ + n]

\* mutation: a zero length accepted
MutOfflineLengthOk(len) == ~len.wrapped

\* the constructor: may the OfflineAudioContext of this length be made?
\* length 0 is a NotSupportedError; a wrapped length is above 2^32 - 2^31
\* frames, which no implementation allocates
OfflineLengthOk(len) == (~len.wrapped) /\ len.value > 0

----------------------------------------------------------------------------
(* generateSynthesizedMusic(style, durationSeconds): the graph it builds   *)

\* mutation: a breathing depth of 0.2
MutLfoDepth == Q(2, 10)

LfoDepth == Q(1, 10)         \* lfoGain.gain.value = 0.1

\* createReverbBuffer(): two channels of 3 s of decaying noise
ReverbBuffer(firstDraw) ==
    NoiseBuffer(2, RenderRate * 3, "decay", Q(1, 1), firstDraw)

\* reverb, master bus and breathing LFO
SharedBus(g, octx) ==
    LET g1 == Drawn(New(g, Convolver(octx, ReverbBuffer(g.draws))),
                    2 * RenderRate * 3)
        reverb == Latest(g1)
        g2 == Connect(g1, reverb, octx, "")
        g3 == New(g2, Gain(octx, Q(5, 10), <<>>))
        master == Latest(g3)
        g4 == Connect(Connect(g3, master, octx, ""), master, reverb, "")
        g5 == New(g4, Oscillator(octx, "sine", Q(5, 100), Q(0, 1), <<>>))
        lfo == Latest(g5)
        g6 == New(g5, Gain(octx, LfoDepth, <<>>))
        lfoGain == Latest(g6)
    IN  [g |-> Connect(Connect(g6, lfo, lfoGain, ""), lfoGain, master, "gain"),
         master |-> master]

\* Math.random() * 10 - 5
Detune(r) == QSub(QMul(r, Q(10, 1)), Q(5, 1))

\* 0.1 + Math.random() * 0.1
PanLfoRate(r) == QAdd(Q(1, 10), QMul(r, Q(1, 10)))

\* (Math.random() * 2 - 1) * amp
NoiseValue(r, amp) == QMul(QSub(QMul(r, Q(2, 1)), Q(1, 1)), amp)

\* sample i of a buffer filled by the loops of lines 405 and 442, in a call
\* whose random numbers are tape
NoiseSample(b, tape, i) == NoiseValue(Random(tape, b.firstDraw + i), b.amp)

\* Math.random() > 0.5
SparkleGate(r) == QLt(Q(1, 2), r)

\* Math.floor(Math.random() * notes.length)
NoteIndex(r, n) == (r.n * n) \div r.d

WitchFreqs == <<Q(55, 1), Q(110, 1), Q(16481, 100)>>
\* mutation: a brighter Witch filter
MutWitchCutoff == Q(3000, 1)

WitchCutoff == Q(300, 1)
RECURSIVE WitchVoices(_, _, _, _, _)
WitchVoices(g, octx, master, tape, i) ==
    IF i > Len(WitchFreqs) THEN g
    ELSE LET g1 == Drawn(New(g, Oscillator(octx, "sawtooth", WitchFreqs[i],
                                     Detune(Random(tape, g.draws)), <<>>)), 1)
             osc == Latest(g1)
             g2 == New(g1, Lowpass(octx, WitchCutoff))
             filter == Latest(g2)
             g3 == New(g2, Gain(octx, Q(15, 100), <<>>))
             gain == Latest(g3)
             g4 == Connect(Connect(Connect(g3, osc, filter, ""),
                                   filter, gain, ""), gain, master, "")
         IN  WitchVoices(g4, octx, master, tape, i + 1)

CrystalFreqs == <<Q(52325, 100), Q(65925, 100), Q(78399, 100), Q(104650, 100)>>
CrystalPan(i) == IF i % 2 = 0 THEN Q(-1, 2) ELSE Q(1, 2)

MutSparkle(g, octx, master, f, dur) ==
    LET g1 == New(g, Oscillator(octx, "sine", QMul(f, Q(2, 1)), Q(0, 1), <<>>))
        sparkle == Latest(g1)
        g2 == New(g1, Gain(octx, Q(0, 1),
                  << [method |-> "setValueAtTime", value |-> Q(2, 100),
                      time |-> Fin(0)],
                     [method |-> "exponentialRampToValueAtTime",
                      value |-> Q(1, 10), time |-> dur] >>))
        sGain == Latest(g2)
    IN  Connect(Connect(g2, sparkle, sGain, ""), sGain, master, "")

\* the sparkle layer of one Crystal voice
Sparkle(g, octx, master, f, dur) ==
    LET g1 == New(g, Oscillator(octx, "sine", QMul(f, Q(2, 1)), Q(0, 1), <<>>))
        sparkle == Latest(g1)
        g2 == New(g1, Gain(octx, Q(0, 1),
                  << [method |-> "setValueAtTime", value |-> Q(2, 100),
                      time |-> Fin(0)],
                     [method |-> "exponentialRampToValueAtTime",
                      value |-> Q(1, 1000), time |-> dur] >>))
        sGain == Latest(g2)
    IN  Connect(Connect(g2, sparkle, sGain, ""), sGain, master, "")

\* the Crystal branch, voice i (from 1)
RECURSIVE CrystalVoices(_, _, _, _, _, _)
CrystalVoices(g, octx, master, tape, dur, i) ==
    IF i > Len(CrystalFreqs) THEN g
    ELSE LET g1 == New(g, Oscillator(octx, "sine", CrystalFreqs[i],
                                     Q(0, 1), <<>>))
             osc == Latest(g1)
             g2 == New(g1, Panner(octx, CrystalPan(i - 1)))
             pan == Latest(g2)
             g3 == New(g2, Gain(octx, Q(4, 100), <<>>))
             gain == Latest(g3)
             g4 == Connect(Connect(Connect(g3, osc, pan, ""),
                                   pan, gain, ""), gain, master, "")
             g5 == Drawn(g4, 1)
             g6 == IF SparkleGate(Random(tape, g4.draws))
                   THEN Sparkle(g5, octx, master, CrystalFreqs[i], dur)
                   ELSE g5
         IN  CrystalVoices(g6, octx, master, tape, dur, i + 1)

AmbientFreqs ==
    <<Q(110, 1), Q(13081, 100), Q(16481, 100), Q(196, 1), Q(220, 1)>>
RECURSIVE AmbientVoices(_, _, _, _, _)
AmbientVoices(g, octx, master, tape, i) ==
    IF i > Len(AmbientFreqs) THEN g
    ELSE LET g1 == New(g, Oscillator(octx, "triangle", AmbientFreqs[i],
                                     Q(0, 1), <<>>))
             osc == Latest(g1)
             g2 == New(g1, Panner(octx, Q(0, 1)))
             pan == Latest(g2)
             g3 == Drawn(New(g2, Oscillator(octx, "sine",
                             PanLfoRate(Random(tape, g2.draws)),
                             Q(0, 1), <<>>)), 1)
             panLfo == Latest(g3)
             g4 == Connect(g3, panLfo, pan, "pan")
             g5 == New(g4, Lowpass(octx, Q(600, 1)))
             filter == Latest(g5)
             g6 == New(g5, Gain(octx, Q(8, 100), <<>>))
             gain == Latest(g6)
             g7 == Connect(Connect(Connect(Connect(g6, osc, filter, ""),
                              filter, pan, ""), pan, gain, ""), gain, master, "")
         IN  AmbientVoices(g7, octx, master, tape, i + 1)

BinauralVoices(g, octx, master, dur) ==
    LET base == Q(200, 1)
        g1 == New(g, Oscillator(octx, "sine", base, Q(0, 1), <<>>))
        oscL == Latest(g1)
        g2 == New(g1, Panner(octx, Q(-1, 1)))
        panL == Latest(g2)
        g3 == New(g2, Oscillator(octx, "sine",
                         QAdd(base, Q(4, 1)), Q(0, 1), <<>>))
        oscR == Latest(g3)
        g4 == New(g3, Panner(octx, Q(1, 1)))
        panR == Latest(g4)
        g5 == New(g4, Gain(octx, Q(15, 100), <<>>))
        bGain == Latest(g5)
        bSize == JsTimes(RenderRate, dur)
        g6 == Drawn(New(g5, BufferSource(octx,
                       NoiseBuffer(1, ToUint32(bSize).value, "noise",
                                   Q(2, 100), g5.draws), FALSE)),
                    LoopCount(bSize))
        noiseNode == Latest(g6)
        g7 == New(g6, Lowpass(octx, Q(400, 1)))
        noiseFilter == Latest(g7)
        g8 == Connect(Connect(g7, noiseNode, noiseFilter, ""),
                      noiseFilter, master, "")
        g9 == Connect(Connect(Connect(g8, oscL, panL, ""),
                              panL, bGain, ""), bGain, master, "")
    IN  Connect(Connect(Connect(g9, oscR, panR, ""),
                        panR, bGain, ""), bGain, master, "")

MutNotes == <<Q(220, 1), Q(440, 1), Q(32963, 100), Q(392, 1)>>
Notes == <<Q(220, 1), Q(26163, 100), Q(32963, 100), Q(392, 1)>>
NoteStep == Q(4, 10)         \* speed = 0.4
\* t += speed in IEEE double arithmetic.  The double nearest 0.4 is
\* (2^55 + 2) / (5 * 2^54), so with the unit u = 2^-54 / 5 the value of t
\* in pass k is  k * 2/5 + drift * u  for a small integer drift, and the
\* sum t + speed before rounding is an integer multiple of 2^-54.
RECURSIVE Pow2(_)
Pow2(e) == IF e = 0 THEN 1 ELSE 2 * Pow2(e - 1)

\* the sum for grid point k is at least 2^(j - 2)
SumAtLeast(k, drift, j) ==
    \/ 8 * k > 5 * Pow2(j)
    \/ 8 * k = 5 * Pow2(j) /\ drift >= 0

\* bits of the sum beyond the 53 a double keeps, counted up from j
RECURSIVE SumShift(_, _, _)
SumShift(k, drift, j) ==
    IF SumAtLeast(k, drift, j + 1) THEN SumShift(k, drift, j + 1) ELSE j

\* round to nearest, ties to even: the drift of the stored sum.  The low
\* bits of the sum are drift / 5 modulo 2^(s + 1); 5 * 3277 = 1 modulo 4096
RoundSum(k, drift) ==
    LET s == SumShift(k, drift, 0)
        unit == Pow2(s)
        low == IF 4096 % (2 * unit) = 0 THEN (drift * 3277) % (2 * unit)
               ELSE CHOOSE r \in 0..(2 * unit - 1) : (5 * r - drift) % (2 * unit) = 0
        rest == low % unit
        odd == low >= unit
        up == 2 * rest > unit \/ (2 * rest = unit /\ odd)
    IN  IF s = 0 THEN drift
        ELSE drift - 5 * rest + (IF up THEN 5 * unit ELSE 0)

\* n more passes after those of acc, whose first entry is pass 0 at t = 0
RECURSIVE StepDrifts(_, _)
StepDrifts(acc, n) ==
    IF n = 0 \/ acc = <<>> THEN acc
    ELSE IF n = 1 THEN Append(acc, RoundSum(Len(acc), acc[Len(acc)] + 2))
    ELSE StepDrifts(StepDrifts(acc, n \div 2), n - n \div 2)

MixDuration == 60            \* const DURATION = 60

\* the drifts of every pass that can start before dur: the grid points
\* up to the first one not below dur
NoteDrifts(dur) ==
    IF dur.kind # "fin" \/ dur.q.n <= 0 THEN <<0>>
    ELSE StepDrifts(<<0>>, (NoteStep.d * dur.q.n) \div (NoteStep.n * dur.q.d) + 1)

\* t < durationSeconds in pass k
NotePass(dur, k, drifts) ==
    /\ dur.kind = "fin"
    /\ \/ NoteStep.n * k * dur.q.d < NoteStep.d * dur.q.n
       \/ /\ NoteStep.n * k * dur.q.d = NoteStep.d * dur.q.n
          /\ drifts[k + 1] < 0

\* number of passes of  for (let t = 0; t < durationSeconds; t += speed)
NoteCount(dur, drifts) ==
    Cardinality({k \in 0..(Len(drifts) - 1) : NotePass(dur, k, drifts)})

\* the frequency steps the loop schedules: pass k at the accumulated time,
\* with the k-th draw of the call
NoteEvents(dur, tape, draw) ==
    LET drifts == NoteDrifts(dur)
        count == NoteCount(dur, drifts)
    IN  [k \in 1..count |->
            [method |-> "setValueAtTime",
             value |-> Notes[NoteIndex(Random(tape, draw + k - 1), Len(Notes)) + 1],
             time |-> [kind |-> "fin", q |-> QMul(NoteStep, Q(k - 1, 1)),
                       drift |-> drifts[k]]]]

\* the 8bit branch
EightbitVoice(g, octx, master, tape, dur) ==
    LET first == << [method |-> "setValueAtTime", value |-> Notes[1],
                     time |-> [kind |-> "fin", q |-> Q(0, 1), drift |-> 0]] >>
        events == first \o NoteEvents(dur, tape, g.draws)
        g1 == Drawn(New(g, Oscillator(octx, "square", Q(440, 1), Q(0, 1),
                                      events)), Len(events) - 1)
        osc == Latest(g1)
        g2 == New(g1, Gain(octx, Q(3, 100), <<>>))
        gain == Latest(g2)
    IN  Connect(Connect(g2, osc, gain, ""), gain, master, "")

DefaultVoice(g, octx, master, dur) ==
    LET bSize == JsTimes(RenderRate, dur)
        g1 == Drawn(New(g, BufferSource(octx,
                       NoiseBuffer(1, ToUint32(bSize).value, "noise",
                                   Q(5, 100), g.draws), FALSE)),
                    LoopCount(bSize))
        noiseNode == Latest(g1)
        g2 == New(g1, Lowpass(octx, Q(800, 1)))
        filter == Latest(g2)
    IN  Connect(Connect(g2, noiseNode, filter, ""), filter, master, "")

\* the sources of the branch the style selects
StyleVoices(g, octx, master, s, tape, dur) ==
    LET p == ResolveProfile(s) IN
    CASE p = "Witch" -> WitchVoices(g, octx, master, tape, 1)
      [] p = "Crystal" -> CrystalVoices(g, octx, master, tape, dur, 1)
      [] p = "Ambient" -> AmbientVoices(g, octx, master, tape, 1)
      [] p = "Binaural" -> BinauralVoices(g, octx, master, dur)
      [] p = "Eightbit" -> EightbitVoice(g, octx, master, tape, dur)
      [] OTHER -> DefaultVoice(g, octx, master, dur)

\* mutation: the length rounded up instead of converted
MutRenderLength(dur) ==
    [wrapped |-> FALSE, value |-> LoopCount(JsTimes(RenderRate, dur))]

\* length argument of  new OfflineAudioContext(2, rate * duration, rate)
RenderLength(dur) == ToUint32(JsTimes(RenderRate, dur))

\* the synchronous part of the function: both contexts, then the graph,
\* up to the call of startRendering(); the constructor of line 271 throws
\* for a length it cannot accept and nothing after it runs
\* mutation: one offline context kept and used again by later calls
MutBuildRender(g, s, dur, tape) ==
    LET g1 == New(g, RealtimeContext(RenderRate))
        len == RenderLength(dur)
        kept == {i \in DOMAIN g.heap : g.heap[i].type = "offline"}
    IN  IF ~OfflineLengthOk(len)
        THEN [g |-> g1, threw |-> TRUE, octx |-> 0]
        ELSE LET g2 == IF kept = {}
                       THEN New(g1, OfflineContext(2, len.value,
                                                   RenderRate))
                       ELSE g1
                 octx == IF kept = {} THEN Latest(g2)
                         ELSE CHOOSE i \in kept : TRUE
                 bus == SharedBus(g2, octx)
             IN  [g |-> StyleVoices(bus.g, octx, bus.master, s, tape, dur),
                  threw |-> FALSE, octx |-> octx]

BuildRender(g, s, dur, tape) ==
    LET g1 == New(g, RealtimeContext(RenderRate))
        len == RenderLength(dur)
    IN  IF ~OfflineLengthOk(len)
        THEN [g |-> g1, threw |-> TRUE, octx |-> 0]
        ELSE LET g2 == New(g1, OfflineContext(2, len.value,
                                              RenderRate))
                 octx == Latest(g2)
                 bus == SharedBus(g2, octx)
             IN  [g |-> StyleVoices(bus.g, octx, bus.master, s, tape, dur),
                  threw |-> FALSE, octx |-> octx]

----------------------------------------------------------------------------
(* Invocations of generateSynthesizedMusic                                 *)

NoResult == [numberOfChannels |-> 0, length |-> 0, sampleRate |-> 0]

\* a call the caller is about to make
PendingRender(s, dur, tape) ==
    [kind |-> "render", pc |-> "pending", style |-> s, duration |-> dur,
     tape |-> tape, octx |-> 0, result |-> NoResult,
     error |-> "", delivery |-> ""]

\* the call after its synchronous part b: waiting for the rendering, or
\* rejected with the constructor's exception
Started(call, b) ==
    IF b.threw
    THEN [call EXCEPT !.pc = "rejected", !.error = "NotSupportedError",
                      !.delivery = "rejection"]
    ELSE [call EXCEPT !.pc = "rendering", !.octx = b.octx]

\* the call: the function body runs synchronously up to its only await;
\* being async, it hands a throw to the caller as a rejected promise
Invoke(c) ==
    /\ calls[c].kind = "render"
    /\ calls[c].pc = "pending"
    /\ LET b == BuildRender([heap |-> heap, wires |-> wires, draws |-> 0],
                            calls[c].style, calls[c].duration, calls[c].tape)
       IN  /\ heap' = b.g.heap
           /\ wires' = b.g.wires
           /\ calls' = [calls EXCEPT ![c] = Started(@, b)]
    /\ UNCHANGED <<abuffer, blob, encPc, style, profile, mixes, encCount, wizardVars, ritualVars>>

\* startRendering() resolves with a buffer of the context's shape and the
\* awaiting function returns it
Complete(c) ==
    /\ calls[c].kind = "render"
    /\ calls[c].pc = "rendering"
    /\ LET dest == heap[calls[c].octx]
       IN  calls' = [calls EXCEPT ![c] =
              [@ EXCEPT !.pc = "resolved",
                        !.delivery = "resolution",
                        !.result = [numberOfChannels |-> dest.channels,
                                    length |-> dest.length,
                                    sampleRate |-> dest.sampleRate]]]
    /\ UNCHANGED <<abuffer, blob, encPc, style, profile, heap, wires, mixes, encCount, wizardVars, ritualVars>>

\* durations: whole seconds, fractions of a second, a duration below one
\* frame, zero, negative values and the non-finite numbers
Durations ==
    { [kind |-> "fin", q |-> Q(1, 50000)], Fin(5 * DurDen), Fin(10 * DurDen), Fin(60 * DurDen), Fin(DurDen),
      Fin(DurDen \div 2), Fin(2), Fin(3), Fin(0), Fin(-1), Fin(-DurDen),
      JsNaN, JsInf, JsNegInf }

Tapes == [1..TapeLen -> 0..(RandDen - 1)]

RenderStyles == UiStyles \cup {TxtUnknown}

InitRender ==
    /\ \E s \in RenderStyles, dur \in Durations, tape \in Tapes :
          calls = << PendingRender(s, dur, tape) >>
    /\ heap = <<>>
    /\ wires = {}
    /\ mixes = <<>>
    /\ abuffer = [numberOfChannels |-> 1, sampleRate |-> 24000, length |-> 0,
                  channelData |-> <<ChannelData(0, 0)>>]
    /\ blob = <<>>
    /\ encPc = "ready"
    /\ encCount = 0
    /\ WizardIdle
    /\ RitualIdle
    /\ style = <<>>
    /\ profile = "none"

NextRender == \E c \in DOMAIN calls : Invoke(c) \/ Complete(c)

SpecRender == InitRender /\ [][NextRender]_vars

----------------------------------------------------------------------------
(* handleMixing: the mix of the music with the narration                   *)

DefaultGain == Q(1, 1)       \* the gain of a GainNode as createGain() makes it

\* state.generatedVoiceAudio: null, or a buffer of the speech service
\* (24000 Hz mono) or of a recording
NoVoice == [present |-> FALSE, numberOfChannels |-> 0, length |-> 0,
            sampleRate |-> 0]
Voice(seconds, sampleRate) ==
    [present |-> TRUE, numberOfChannels |-> 1,
     length |-> seconds * sampleRate, sampleRate |-> sampleRate]

\* an AudioBuffer given to a source node
Buffer(b, fill) ==
    [NoBuffer EXCEPT !.numberOfChannels = b.numberOfChannels,
                     !.length = b.length, !.sampleRate = b.sampleRate,
                     !.fill = fill]

SetGain(g, node, v) == [g EXCEPT !.heap[node].gain = v]

\* mutation: the narration source left as a one-shot
MutVoiceLoop == FALSE

VoiceLoop == TRUE            \* vSource.loop = true

\* mutation: the silent narration as loud as the old conscious one
MutModeLevels(mode) ==
    IF mode = "conscious"
    THEN [voice |-> Q(5, 10), music |-> Q(3, 10), cutoff |-> Q(0, 1)]
    ELSE IF mode = "subliminal"
    THEN [voice |-> Q(15, 1000), music |-> Q(6, 10), cutoff |-> Q(8000, 1)]
    ELSE [voice |-> Q(7, 10), music |-> Q(8, 10), cutoff |-> Q(200, 1)]

\* the values the three branches of lines 202-224 assign (cutoff 0: the
\* branch makes no filter)
ModeLevels(mode) ==
    IF mode = "conscious"
    THEN [voice |-> Q(5, 10), music |-> Q(3, 10), cutoff |-> Q(0, 1)]
    ELSE IF mode = "subliminal"
    THEN [voice |-> Q(15, 1000), music |-> Q(6, 10), cutoff |-> Q(8000, 1)]
    ELSE [voice |-> Q(1, 100), music |-> Q(8, 10), cutoff |-> Q(200, 1)]

\* mutation: the gain wired before the filter
MutFiltered(g, octx, vSource, vGain, cutoff) ==
    LET g1 == New(g, Lowpass(octx, cutoff))
        filter == Latest(g1)
    IN  Connect(Connect(Connect(g1, vSource, vGain, ""), vGain, filter, ""),
                filter, octx, "")

\* vSource.connect(filter).connect(vGain); vGain.connect(destination)
Filtered(g, octx, vSource, vGain, cutoff) ==
    LET g1 == New(g, Lowpass(octx, cutoff))
        filter == Latest(g1)
    IN  Connect(Connect(Connect(g1, vSource, filter, ""), filter, vGain, ""),
                vGain, octx, "")

\* the narration branch: lines 195-225
VoiceBranch(g, octx, mGain, voice, mode) ==
    LET g1 == New(g, BufferSource(octx, Buffer(voice, "voice"), VoiceLoop))
        vSource == Latest(g1)
        g2 == New(g1, Gain(octx, DefaultGain, <<>>))
        vGain == Latest(g2)
        lv == ModeLevels(mode)
        g3 == SetGain(SetGain(g2, vGain, lv.voice), mGain, lv.music)
    IN  IF mode = "conscious"
        THEN Connect(Connect(g3, vSource, vGain, ""), vGain, octx, "")
        ELSE Filtered(g3, octx, vSource, vGain, lv.cutoff)

\* the graph of lines 187-228 on the context octx
BuildMix(g, octx, musicBuffer, voice, mode) ==
    LET g1 == New(g, BufferSource(octx, Buffer(musicBuffer, "rendered"), TRUE))
        mSource == Latest(g1)
        g2 == New(g1, Gain(octx, DefaultGain, <<>>))
        mGain == Latest(g2)
        g3 == Connect(Connect(g2, mSource, mGain, ""), mGain, octx, "")
    IN  IF voice.present THEN VoiceBranch(g3, octx, mGain, voice, mode)
        ELSE g3

\* an activation of handleMixing about to run, with the props it reads
\* and the isPlaying its closure holds
PendingMix(s, voice, mode, tape, wasPlaying) ==
    [pc |-> "start", style |-> s, voice |-> voice, mode |-> mode,
     tape |-> tape, isPlaying |-> wasPlaying, isLoading |-> FALSE,
     playing |-> wasPlaying, octx |-> 0, call |-> 0,
     result |-> NoResult, wavLength |-> 0]

\* lines 178-186: stop the playback, make the context, call the synthesis
MixBegin(j) ==
    /\ mixes[j].pc = "start"
    /\ LET dur == [kind |-> "fin", q |-> Q(MixDuration, 1)]
           len == ToUint32(JsTimes(44100, dur))
           g1 == New([heap |-> heap, wires |-> wires, draws |-> 0],
                     OfflineContext(2, len.value, 44100))
           b == BuildRender(g1, mixes[j].style, dur, mixes[j].tape)
       IN  /\ heap' = b.g.heap
           /\ wires' = b.g.wires
           /\ calls' = Append(calls,
                 Started(PendingRender(mixes[j].style, dur, mixes[j].tape), b))
           /\ mixes' = [mixes EXCEPT ![j] =
                 [@ EXCEPT !.pc = "awaitMusic", !.isLoading = TRUE,
                           !.playing = FALSE, !.octx = Latest(g1),
                           !.call = Len(calls) + 1]]
    /\ UNCHANGED <<abuffer, blob, encPc, style, profile, encCount, wizardVars, ritualVars>>

\* lines 187-229: the music has arrived; build the graph and start rendering
\* (a rejected synthesis ends the handler with isLoading left set)
MixGraph(j) ==
    /\ mixes[j].pc = "awaitMusic"
    /\ calls[mixes[j].call].pc \in {"resolved", "rejected"}
    /\ IF calls[mixes[j].call].pc = "rejected"
       THEN /\ mixes' = [mixes EXCEPT ![j] = [@ EXCEPT !.pc = "failed"]]
            /\ UNCHANGED <<heap, wires>>
       ELSE LET g == BuildMix([heap |-> heap, wires |-> wires, draws |-> 0],
                              mixes[j].octx, calls[mixes[j].call].result,
                              mixes[j].voice, mixes[j].mode)
            IN  /\ heap' = g.heap
                /\ wires' = g.wires
                /\ mixes' = [mixes EXCEPT ![j] = [@ EXCEPT !.pc = "rendering"]]
    /\ UNCHANGED <<abuffer, blob, encPc, style, profile, calls, encCount, wizardVars, ritualVars>>

\* lines 229-233: the rendered buffer, its WAV, the playback
MixDone(j) ==
    /\ mixes[j].pc = "rendering"
    /\ LET dest == heap[mixes[j].octx]
       IN  mixes' = [mixes EXCEPT ![j] =
              [@ EXCEPT !.pc = "done", !.isLoading = FALSE,
                        !.playing = ~mixes[j].isPlaying,
                        !.result = [numberOfChannels |-> dest.channels,
                                    length |-> dest.length,
                                    sampleRate |-> dest.sampleRate],
                        !.wavLength = WavLength(dest.length, dest.channels)]]
    /\ UNCHANGED <<abuffer, blob, encPc, style, profile, calls, heap, wires, encCount, wizardVars, ritualVars>>

Modes == {"conscious", "subliminal", "silent"}

\* narrations: none, shorter than the mix, longer than the mix, recorded
Voices ==
    { NoVoice, Voice(1, 24000), Voice(3, 24000), Voice(90, 24000),
      Voice(2, 48000) }

\* tapes that repeat one number
FlatTapes == {[i \in 1..TapeLen |-> r] : r \in 0..(RandDen - 1)}

InitMix ==
    /\ \E s \in UiStyles, voice \in Voices, mode \in Modes,
          tape \in FlatTapes, wasPlaying \in BOOLEAN :
          mixes = << PendingMix(s, voice, mode, tape, wasPlaying) >>
    /\ calls = <<>>
    /\ heap = <<>>
    /\ wires = {}
    /\ abuffer = [numberOfChannels |-> 1, sampleRate |-> 24000, length |-> 0,
                  channelData |-> <<ChannelData(0, 0)>>]
    /\ blob = <<>>
    /\ encPc = "ready"
    /\ encCount = 0
    /\ WizardIdle
    /\ RitualIdle
    /\ style = <<>>
    /\ profile = "none"

\* the user picks a mode not mixed yet and presses the mix button again,
\* which is enabled while isLoading is false
MixAgain(mode) ==
    /\ mixes # <<>>
    /\ \A j \in DOMAIN mixes : mixes[j].mode # mode
    /\ LET last == mixes[Len(mixes)]
       IN  /\ last.pc = "done"
           /\ mixes' = Append(mixes,
                 PendingMix(last.style, last.voice, mode, last.tape,
                            last.playing))
    /\ UNCHANGED <<abuffer, blob, encPc, style, profile, calls, heap, wires, encCount, wizardVars, ritualVars>>

NextMix ==
    \/ \E j \in DOMAIN mixes : MixBegin(j) \/ MixGraph(j) \/ MixDone(j)
    \/ \E c \in DOMAIN calls : Complete(c)
    \/ \E mode \in Modes : MixAgain(mode)

SpecMix == InitMix /\ [][NextMix]_vars

----------------------------------------------------------------------------
(* A preview (handleMusicGen) and a mix in progress together               *)


InitConcurrent ==
    /\ \E s1 \in UiStyles, s2 \in UiStyles, tape \in FlatTapes,
          voice \in {NoVoice, Voice(3, 24000)}, mode \in Modes :
          /\ calls = << PendingRender(s1, Fin(10 * DurDen), tape) >>
          /\ mixes = << PendingMix(s2, voice, mode, tape, FALSE) >>
    /\ heap = <<>>
    /\ wires = {}
    /\ abuffer = [numberOfChannels |-> 1, sampleRate |-> 24000, length |-> 0,
                  channelData |-> <<ChannelData(0, 0)>>]
    /\ blob = <<>>
    /\ encPc = "ready"
    /\ encCount = 0
    /\ WizardIdle
    /\ RitualIdle
    /\ style = <<>>
    /\ profile = "none"

NextConcurrent ==
    \/ \E c \in DOMAIN calls : Invoke(c) \/ Complete(c)
    \/ \E j \in DOMAIN mixes : MixBegin(j) \/ MixGraph(j) \/ MixDone(j)

SpecConcurrent == InitConcurrent /\ [][NextConcurrent]_vars

----------------------------------------------------------------------------
(* Claims about render (specification SpecRender)                          *)

RenderCalls == {c \in DOMAIN calls : calls[c].kind = "render"}

\* the duration is a number of seconds above zero
ValidDuration(dur) == dur.kind = "fin" /\ dur.q.n > 0

InvalidDuration(dur) == dur.kind # "fin" \/ dur.q.n <= 0

----------------------------------------------------------------------------
(* The graph of a call, as the renderer reads it                           *)

Wire(from, to, param) == [from |-> from, to |-> to, param |-> param]

\* the calls whose graph has been built
Built == {c \in RenderCalls : calls[c].pc \in {"rendering", "resolved"}}

\* the nodes made on the offline context o
CtxNodes(o) == {i \in DOMAIN heap : heap[i].ctx = o}

\* the nodes from which a signal reaches a node of S, by audio or by
\* parameter connections
RECURSIVE Upstream(_)
Upstream(S) ==
    LET T == S \cup {w.from : w \in {x \in wires : x.to \in S}}
    IN  IF T = S THEN S ELSE Upstream(T)

\* the nodes and the parameter inputs wired into node i
AudioInputs(i) == {w.from : w \in {x \in wires : x.to = i /\ x.param = ""}}
ParamInputs(i, p) == {w.from : w \in {x \in wires : x.to = i /\ x.param = p}}

\* values a sine oscillator takes
SineDen == 4
SineValues == {Q(k, SineDen) : k \in (-SineDen)..SineDen}

\* the computed value of the gain parameter of node m when its modulating
\* oscillators are at x: the intrinsic value plus the connected inputs
GainAt(m, x) ==
    LET ins == ParamInputs(m, "gain")
    IN  IF ins = {} THEN heap[m].gain
        ELSE LET l == CHOOSE i \in ins : TRUE
             IN  QAdd(heap[m].gain, QMul(heap[l].gain, x))

\* the master of the graph on o: the gain node wired to the output and to
\* the reverb
IsMaster(o, m) ==
    /\ m \in CtxNodes(o)
    /\ heap[m].kind = "Gain"
    /\ Wire(m, o, "") \in wires

IsReverb(o, r) ==
    /\ r \in CtxNodes(o)
    /\ heap[r].kind = "Convolver"
    /\ Wire(r, o, "") \in wires

\* C19: for every profile the graph has one master gain of base 0.5 that
\* every other node feeds, modulated by one 0.05 Hz sine of depth 0.1 so
\* that its gain stays within [0.4, 0.6]; the master feeds the output and a
\* convolution reverb, whose output also goes to the output.
C19_SharedTopology ==
    \A c \in Built :
        LET o == calls[c].octx IN
        \E m \in CtxNodes(o), r \in CtxNodes(o) :
            /\ IsMaster(o, m) /\ IsReverb(o, r)
            /\ AudioInputs(o) = {m, r}
            /\ AudioInputs(r) = {m}
            /\ heap[r].buffer.numberOfChannels = 2
            /\ heap[r].buffer.length = 3 * 44100
            /\ QEq(heap[m].gain, Q(5, 10))
            /\ heap[m].events = <<>>
            /\ CtxNodes(o) \ {r} \subseteq Upstream({m})
            /\ \E l \in CtxNodes(o), lg \in CtxNodes(o) :
                  /\ heap[l].kind = "Oscillator" /\ heap[l].type = "sine"
                  /\ heap[l].started
                  /\ QEq(heap[l].frequency, Q(5, 100))
                  /\ heap[l].events = <<>>
                  /\ AudioInputs(lg) = {l}
                  /\ heap[lg].kind = "Gain"
                  /\ QEq(heap[lg].gain, Q(1, 10))
                  /\ ParamInputs(lg, "gain") = {}
                  /\ ParamInputs(m, "gain") = {lg}
            /\ \A x \in SineValues :
                  /\ QLe(Q(4, 10), GainAt(m, x))
                  /\ QLe(GainAt(m, x), Q(6, 10))

C19_Witness ==
    \E c \in Built :
        /\ calls[c].pc = "resolved"
        /\ calls[c].style = UiGameboy
        /\ \E m \in CtxNodes(calls[c].octx) :
              /\ IsMaster(calls[c].octx, m)
              /\ ParamInputs(m, "gain") # {}
              /\ QEq(GainAt(m, Q(-SineDen, SineDen)), Q(4, 10))
              /\ Cardinality(AudioInputs(m)) = 1

----------------------------------------------------------------------------
(* The source sets of the profiles                                         *)

\* where the output of node i goes
Outputs(i) == {w.to : w \in {x \in wires : x.from = i /\ x.param = ""}}

\* the nodes whose signal reaches a node of S through audio connections
RECURSIVE AudioUpstream(_)
AudioUpstream(S) ==
    LET T == S \cup {w.from : w \in {x \in wires : x.to \in S /\ x.param = ""}}
    IN  IF T = S THEN S ELSE AudioUpstream(T)

\* the master of the graph on o
MasterOf(o) == CHOOSE m \in CtxNodes(o) : IsMaster(o, m)

\* the sound sources of the graph on o
Sources(o) ==
    {i \in AudioUpstream({MasterOf(o)}) :
        heap[i].kind \in {"Oscillator", "BufferSource"}}

IsLowpass(i, f) ==
    /\ heap[i].kind = "BiquadFilter" /\ heap[i].type = "lowpass"
    /\ QEq(heap[i].frequency, f)

IsGain(i, v) ==
    /\ heap[i].kind = "Gain" /\ QEq(heap[i].gain, v)
    /\ heap[i].events = <<>> /\ ParamInputs(i, "gain") = {}

IsPanner(i, v) ==
    /\ heap[i].kind = "StereoPanner" /\ QEq(heap[i].pan, v)

IsOsc(i, type, f) ==
    /\ heap[i].kind = "Oscillator" /\ heap[i].type = type
    /\ heap[i].started /\ heap[i].events = <<>>
    /\ QEq(heap[i].frequency, f)

\* the sources are oscillators of one type, one for each frequency of fs
OneOscPerFreq(S, type, fs) ==
    /\ Cardinality(S) = Cardinality(fs)
    /\ \A f \in fs : \E i \in S : IsOsc(i, type, f)

\* the nodes a signal passes from node i to the master m, while each has
\* one output
RECURSIVE Path(_, _)
Path(i, m) ==
    IF i = m \/ Cardinality(Outputs(i)) # 1 THEN <<i>>
    ELSE <<i>> \o Path(CHOOSE j \in Outputs(i) : TRUE, m)

\* source i is a started one-shot noise buffer within +-amp that goes
\* through a low-pass at cutoff into the master
IsNoiseVoice(c, i, amp, cutoff) ==
    LET path == Path(i, MasterOf(calls[c].octx)) IN
    /\ heap[i].kind = "BufferSource" /\ heap[i].started /\ ~heap[i].loop
    /\ heap[i].buffer.numberOfChannels = 1
    /\ heap[i].buffer.length = calls[c].result.length
    /\ \A k \in 0..(TapeLen - 1) :
          LET v == NoiseSample(heap[i].buffer, calls[c].tape, k)
          IN  QLe(QSub(Q(0, 1), amp), v) /\ QLe(v, amp)
    /\ Len(path) = 3
    /\ IsLowpass(path[2], cutoff)
    /\ path[3] = MasterOf(calls[c].octx)

WitchRecipe(c) ==
    LET o == calls[c].octx
        m == MasterOf(o)
        S == Sources(o)
    IN  /\ OneOscPerFreq(S, "sawtooth", {Q(55, 1), Q(110, 1), Q(16481, 100)})
        /\ \A i \in S :
              LET path == Path(i, m) IN
              /\ QLe(Q(-5, 1), heap[i].detune) /\ QLe(heap[i].detune, Q(5, 1))
              /\ Len(path) = 4
              /\ IsLowpass(path[2], Q(300, 1))
              /\ IsGain(path[3], Q(15, 100))
              /\ path[4] = m

AmbientRecipe(c) ==
    LET o == calls[c].octx
        m == MasterOf(o)
        S == Sources(o)
    IN  /\ OneOscPerFreq(S, "triangle",
              {Q(110, 1), Q(13081, 100), Q(16481, 100), Q(196, 1), Q(220, 1)})
        /\ \A i \in S :
              LET path == Path(i, m)
                  lfos == ParamInputs(path[3], "pan")
              IN  /\ Len(path) = 5
                  /\ IsLowpass(path[2], Q(600, 1))
                  /\ heap[path[3]].kind = "StereoPanner"
                  /\ Cardinality(lfos) = 1
                  /\ \A l \in lfos :
                        /\ heap[l].kind = "Oscillator" /\ heap[l].started
                        /\ QLe(Q(1, 10), heap[l].frequency)
                        /\ QLe(heap[l].frequency, Q(2, 10))
                        /\ Cardinality({w \in wires : w.from = l}) = 1
                  /\ IsGain(path[4], Q(8, 100))
                  /\ path[5] = m

BinauralRecipe(c) ==
    LET o == calls[c].octx
        m == MasterOf(o)
        S == Sources(o)
    IN  /\ Cardinality(S) = 3
        /\ \E l \in S, r \in S, n \in S :
              LET pathL == Path(l, m)
                  pathR == Path(r, m)
              IN  /\ IsOsc(l, "sine", Q(200, 1)) /\ heap[l].detune.n = 0
                  /\ IsOsc(r, "sine", Q(204, 1)) /\ heap[r].detune.n = 0
                  /\ Len(pathL) = 4 /\ Len(pathR) = 4
                  /\ IsPanner(pathL[2], Q(-1, 1))
                  /\ IsPanner(pathR[2], Q(1, 1))
                  /\ ParamInputs(pathL[2], "pan") = {}
                  /\ ParamInputs(pathR[2], "pan") = {}
                  /\ IsGain(pathL[3], Q(15, 100))
                  /\ pathR[3] = pathL[3]
                  /\ pathL[4] = m
                  /\ IsNoiseVoice(c, n, Q(2, 100), Q(400, 1))

DefaultNoiseRecipe(c) ==
    LET S == Sources(calls[c].octx)
    IN  /\ Cardinality(S) = 1
        /\ \A n \in S : IsNoiseVoice(c, n, Q(5, 100), Q(800, 1))

\* C20: the sources built for Witch, Ambient, Binaural and DefaultNoise are
\* exactly those of the recipe (oscillator types and frequencies, detune
\* and pan-LFO ranges, filters, gains, pans and noise amplitudes).
C20_FixedRecipes ==
    \A c \in RenderCalls :
        calls[c].pc = "resolved" =>
            LET p == ResolveProfile(calls[c].style) IN
            /\ p = "Witch" => WitchRecipe(c)
            /\ p = "Ambient" => AmbientRecipe(c)
            /\ p = "Binaural" => BinauralRecipe(c)
            /\ p = "DefaultNoise" => DefaultNoiseRecipe(c)

C20_Witness ==
    \E c \in RenderCalls :
        /\ calls[c].pc = "resolved"
        /\ calls[c].style = UiWitch
        /\ WitchRecipe(c)
        /\ \E i \in Sources(calls[c].octx) :
              heap[i].detune.n # 0 /\ IsOsc(i, "sawtooth", Q(16481, 100))

----------------------------------------------------------------------------
(* Claims about the mix (specification SpecMix)                            *)

\* the mixes whose graph has been built
MixBuilt == {j \in DOMAIN mixes : mixes[j].pc \in {"rendering", "done"}}
MixDoneSet == {j \in DOMAIN mixes : mixes[j].pc = "done"}

\* the buffer sources of mix j, by what they play
MixSources(j) ==
    {i \in CtxNodes(mixes[j].octx) : heap[i].kind = "BufferSource"}
MusicSource(j) ==
    CHOOSE i \in MixSources(j) : heap[i].buffer.fill = "rendered"
VoiceSource(j) ==
    CHOOSE i \in MixSources(j) : heap[i].buffer.fill = "voice"

\* the frame of its buffer that source i plays at output frame n of a
\* context of the given rate (-1: the source has ended and gives silence)
SourceFrame(i, rate, n) ==
    LET b == heap[i].buffer
        pos == (n \div rate) * b.sampleRate
                 + ((n % rate) * b.sampleRate) \div rate
    IN  IF heap[i].loop THEN pos % b.length
        ELSE IF pos < b.length THEN pos ELSE -1

\* the output frame at which a buffer of whole seconds ends for the first
\* time
WrapFrame(i, rate) == (heap[i].buffer.length \div heap[i].buffer.sampleRate) * rate

\* C12: the mixed buffer has targetDuration * sampleRate frames whatever
\* the lengths of the sources, and every source is looped: a source that is
\* shorter than the target starts again from its first frame where it ends
\* and still plays at the last output frame.
C12_NeverShort ==
    \A j \in MixDoneSet :
        LET len == mixes[j].result.length IN
        /\ len = 60 * 44100
        /\ mixes[j].result.numberOfChannels = 2
        /\ MixSources(j) # {}
        /\ \A i \in MixSources(j) :
              /\ heap[i].loop /\ heap[i].started
              /\ SourceFrame(i, 44100, 0) = 0
              /\ SourceFrame(i, 44100, len - 1) \in 0..(heap[i].buffer.length - 1)
              /\ WrapFrame(i, 44100) < len =>
                    /\ SourceFrame(i, 44100, WrapFrame(i, 44100) - 1) > 0
                    /\ SourceFrame(i, 44100, WrapFrame(i, 44100)) = 0

C12_Witness ==
    \E j \in MixDoneSet :
        /\ mixes[j].voice = Voice(3, 24000)
        /\ mixes[j].result.length = 2646000
        /\ heap[MusicSource(j)].buffer.length = 2646000
        /\ SourceFrame(VoiceSource(j), 44100, 3 * 44100) = 0
        /\ SourceFrame(VoiceSource(j), 44100, 2646000 - 1) = 71999

\* the chain of mix j from its music and from its narration to the output
MusicPath(j) == Path(MusicSource(j), mixes[j].octx)
VoicePath(j) == Path(VoiceSource(j), mixes[j].octx)

\* mix j applies narration gain vg, music gain mg and the narration filter
\* (cutoff 0: none), the filter before the gain
Applies(j, vg, cutoff, mg) ==
    LET o == mixes[j].octx
        mp == MusicPath(j)
        vp == VoicePath(j)
    IN  /\ Len(mp) = 3 /\ IsGain(mp[2], mg) /\ mp[3] = o
        /\ IF cutoff.n = 0
           THEN /\ Len(vp) = 3 /\ IsGain(vp[2], vg) /\ vp[3] = o
                /\ \A i \in CtxNodes(o) : heap[i].kind # "BiquadFilter"
           ELSE /\ Len(vp) = 4 /\ IsLowpass(vp[2], cutoff)
                /\ IsGain(vp[3], vg) /\ vp[4] = o

\* C13: with a narration buffer present the mix applies the constants of
\* the mode: conscious 0.5 / no filter / 0.3, subliminal 0.015 / low-pass
\* 8000 Hz / 0.6, silent 0.01 / low-pass 200 Hz / 0.8, the low-pass before
\* the narration gain.
C13_ModeConstants ==
    \A j \in MixBuilt :
        mixes[j].voice.present =>
            /\ mixes[j].mode = "conscious" =>
                  Applies(j, Q(5, 10), Q(0, 1), Q(3, 10))
            /\ mixes[j].mode = "subliminal" =>
                  Applies(j, Q(15, 1000), Q(8000, 1), Q(6, 10))
            /\ mixes[j].mode = "silent" =>
                  Applies(j, Q(1, 100), Q(200, 1), Q(8, 10))

C13_Witness ==
    \E j \in MixBuilt :
        /\ mixes[j].mode = "silent"
        /\ mixes[j].voice = Voice(1, 24000)
        /\ Applies(j, Q(1, 100), Q(200, 1), Q(8, 10))

\* the music gain the mode stands for
ModeMusicGain(mode) ==
    IF mode = "conscious" THEN Q(3, 10)
    ELSE IF mode = "subliminal" THEN Q(6, 10)
    ELSE Q(8, 10)

\* C14: with a null narration buffer the output is the music scaled by the
\* music gain of the selected mode.
C14_NullNarration ==
    \A j \in MixBuilt :
        ~mixes[j].voice.present =>
            LET mp == MusicPath(j) IN
            /\ MixSources(j) = {MusicSource(j)}
            /\ Len(mp) = 3
            /\ IsGain(mp[2], ModeMusicGain(mixes[j].mode))
            /\ mp[3] = mixes[j].octx

----------------------------------------------------------------------------
(* Energies of the contributions to a mix                                  *)

\* mean-square levels of a source buffer, in model units
MaxEnergy == 3
Energies == 1..MaxEnergy

\* power gains of a low-pass over the band of its input, in quarters: from
\* nothing passed to the resonance peak of the default Q
FilterPowers == 0..8

\* a gain in thousandths
Milli(q) == (q.n * 1000) \div q.d

\* the product of the gains along a chain of nodes, from node k on
RECURSIVE PathGain(_, _)
PathGain(path, k) ==
    IF k > Len(path) THEN Q(1, 1)
    ELSE QMul(IF heap[path[k]].kind = "Gain" THEN heap[path[k]].gain
              ELSE Q(1, 1),
              PathGain(path, k + 1))

HasFilter(path) ==
    \E k \in 1..Len(path) : heap[path[k]].kind = "BiquadFilter"

\* the levels of mix j: the power gains of its narration and music chains
\* in millionths, and whether the narration is filtered
Levels(j) ==
    LET vg == IF mixes[j].voice.present
              THEN Milli(PathGain(VoicePath(j), 1)) ELSE 0
        mg == Milli(PathGain(MusicPath(j), 1))
    IN  [voice |-> vg * vg, music |-> mg * mg,
         filtered |-> mixes[j].voice.present /\ HasFilter(VoicePath(j))]

\* energies the mix delivers for sources of energy en and em when the
\* filter, if any, has power gain h4 / 4 (unit: a quarter of a millionth)
NarrationEnergy(l, en, h4) ==
    l.voice * (IF l.filtered THEN h4 ELSE 4) * en
MusicEnergy(l, em) == l.music * 4 * em
TotalEnergy(l, em, en, h4) == MusicEnergy(l, em) + NarrationEnergy(l, en, h4)

\* two energies whose RMS values are within 20% of each other
Within20(a, b) == 25 * a <= 36 * b /\ 25 * b <= 36 * a

\* finished mixes of one mode made with a narration
DoneIn(mode) ==
    {j \in MixDoneSet : mixes[j].mode = mode /\ mixes[j].voice.present}

\* C18 (as stated): for the same music and narration the narration energy
\* of the conscious mix is strictly above the narration-band energy of the
\* silent mix, and the total output RMS of the three modes stays within 20%.
C18_LoudnessPreserved ==
    \A a \in DoneIn("conscious"), b \in DoneIn("subliminal"),
       c \in DoneIn("silent") :
        LET la == Levels(a)
            lb == Levels(b)
            lc == Levels(c)
        IN  \A em \in Energies, en \in Energies, h4 \in FilterPowers :
            /\ NarrationEnergy(la, en, 4) > NarrationEnergy(lc, en, h4)
            /\ Within20(TotalEnergy(la, em, en, 4), TotalEnergy(lb, em, en, h4))
            /\ Within20(TotalEnergy(la, em, en, 4), TotalEnergy(lc, em, en, h4))
            /\ Within20(TotalEnergy(lb, em, en, h4), TotalEnergy(lc, em, en, h4))

\* C18 (amended): for the same music and a narration that is not silent the
\* narration energy of the conscious mix is strictly above the
\* narration-band energy of the silent mix; the loudness is not held: the
\* music is scaled by 0.3, 0.6 and 0.8, so its RMS differs by more than 20%
\* between any two modes.
C18_NarrationAboveMusicScaled ==
    \A a \in DoneIn("conscious") :
        LET la == Levels(a) IN
        /\ \A c \in DoneIn("silent") :
              LET lc == Levels(c) IN
              \A em \in Energies, en \in Energies, h4 \in FilterPowers :
                  /\ NarrationEnergy(la, en, 4) > NarrationEnergy(lc, en, h4)
                  /\ 64 * MusicEnergy(la, em) = 9 * MusicEnergy(lc, em)
                  /\ ~Within20(MusicEnergy(la, em), MusicEnergy(lc, em))
        /\ \A b \in DoneIn("subliminal") :
              LET lb == Levels(b) IN
              \A em \in Energies :
                  /\ 36 * MusicEnergy(la, em) = 9 * MusicEnergy(lb, em)
                  /\ ~Within20(MusicEnergy(la, em), MusicEnergy(lb, em))
                  /\ \A c \in DoneIn("silent") :
                        ~Within20(MusicEnergy(lb, em),
                                  MusicEnergy(Levels(c), em))

C18_Witness ==
    \E a \in DoneIn("conscious"), b \in DoneIn("subliminal"),
       c \in DoneIn("silent") :
        /\ mixes[a].voice = Voice(3, 24000)
        /\ NarrationEnergy(Levels(a), 1, 4) = 1000000
        /\ NarrationEnergy(Levels(c), 1, 4) = 400
        /\ MusicEnergy(Levels(b), 1) = 1440000

----------------------------------------------------------------------------
(* Isolation of overlapping calls (specification SpecConcurrent)           *)

\* the context a node belongs to
Owner(i) == IF heap[i].kind = "Destination" THEN i ELSE heap[i].ctx

\* the graph on context o of the heap h with wires w, with its nodes
\* numbered in order of creation
Members(h, o) == {i \in DOMAIN h : i = o \/ h[i].ctx = o}
Rank(h, o, i) == Cardinality({k \in Members(h, o) : k <= i})
Canon(h, w, o) ==
    [nodes |-> {<<Rank(h, o, i), [h[i] EXCEPT !.ctx = IF i = o THEN 0 ELSE 1]>> :
                    i \in Members(h, o)},
     wires |-> {[from |-> Rank(h, o, x.from), to |-> Rank(h, o, x.to),
                 param |-> x.param] :
                    x \in {y \in w : y.from \in Members(h, o)
                                       \/ y.to \in Members(h, o)}}]

EmptyGraph == [heap |-> <<>>, wires |-> {}, draws |-> 0]

\* what call c builds when it runs alone
SoloRender(c) ==
    BuildRender(EmptyGraph, calls[c].style, calls[c].duration, calls[c].tape)

\* what mix j builds when it runs alone
SoloMix(j) ==
    BuildMix([EmptyGraph EXCEPT
                 !.heap = << OfflineContext(2, 60 * 44100, 44100) >>],
             1, calls[mixes[j].call].result, mixes[j].voice, mixes[j].mode)

\* the offline contexts in use
ContextsInUse ==
    {calls[c].octx : c \in Built} \cup
    {mixes[j].octx : j \in {k \in DOMAIN mixes : mixes[k].octx # 0}}

\* C16: overlapping calls of render and mix each have their own context,
\* nodes and output buffer and share no node; under every interleaving
\* each call's graph and result are those it has when it runs alone.
C16_Isolation ==
    /\ \A c \in Built, d \in Built : c # d => calls[c].octx # calls[d].octx
    /\ \A c \in Built, j \in DOMAIN mixes : calls[c].octx # mixes[j].octx
    /\ \A i \in DOMAIN heap :
          heap[i].kind # "Destination" => Owner(i) \in ContextsInUse
    /\ \A w \in wires : Owner(w.from) = Owner(w.to)
    /\ \A c \in Built :
          LET solo == SoloRender(c) IN
          /\ Canon(heap, wires, calls[c].octx)
                = Canon(solo.g.heap, solo.g.wires, solo.octx)
          /\ calls[c].pc = "resolved" =>
                calls[c].result =
                    [numberOfChannels |-> 2,
                     length |-> solo.g.heap[solo.octx].length,
                     sampleRate |-> 44100]
    /\ \A j \in MixBuilt :
          LET solo == SoloMix(j) IN
          /\ Canon(heap, wires, mixes[j].octx)
                = Canon(solo.heap, solo.wires, 1)
          /\ mixes[j].pc = "done" =>
                mixes[j].result = [numberOfChannels |-> 2,
                                   length |-> 60 * 44100,
                                   sampleRate |-> 44100]

\* both syntheses are rendering at once, the mix's one built first
C16_Witness ==
    /\ Len(calls) = 2
    /\ calls[1].pc = "rendering" /\ calls[2].pc = "rendering"
    /\ calls[2].octx < calls[1].octx
    /\ mixes[1].pc = "awaitMusic"
    /\ Cardinality(ContextsInUse) = 3

\* ---------------------------------------------------------------------
\* C21: the 8bit step sequence

\* the note set of the specification
NoteSet == {Q(220, 1), Q(26163, 100), Q(32963, 100), Q(392, 1)}

InNoteSet(v) == \E n \in NoteSet : QEq(v, n)

\* event time a is not later than event time b; both are a grid point
\* plus a rounding drift far smaller than the grid
TimeLe(a, b) == QLt(a.q, b.q) \/ (QEq(a.q, b.q) /\ a.drift <= b.drift)

\* the event time is strictly less than the duration
BeforeEnd(t, dur) == QLt(t.q, dur.q) \/ (QEq(t.q, dur.q) /\ t.drift < 0)

\* the time is k steps of 0.4 accumulated from 0, to within the rounding
\* of the additions (2^16 units of 2^-54 / 5 are below 10^-11 s)
OnGrid(t, k) == QEq(t.q, Q(4 * k, 10)) /\ Abs(t.drift) < 65536

\* the frequency of oscillator i at instant t: the value of the latest
\* event scheduled not later (the events being in time order, the last
\* written wins), and the node's own value before the first event
FrequencyAt(i, t) ==
    LET ev == heap[i].events
        Last(j) == /\ TimeLe(ev[j].time, t)
                   /\ \A x \in (j + 1)..Len(ev) : ~TimeLe(ev[x].time, t)
    IN  IF \E j \in DOMAIN ev : Last(j)
        THEN ev[CHOOSE j \in DOMAIN ev : Last(j)].value
        ELSE heap[i].frequency

EightbitRecipe(c) ==
    LET o == calls[c].octx
        m == MasterOf(o)
        S == Sources(o)
        dur == calls[c].duration
    IN  /\ Cardinality(S) = 1
        /\ \A i \in S :
              LET path == Path(i, m)
                  ev == heap[i].events
              IN
              /\ heap[i].kind = "Oscillator" /\ heap[i].type = "square"
              /\ heap[i].started
              /\ ParamInputs(i, "frequency") = {}
              /\ Len(path) = 3 /\ IsGain(path[2], Q(3, 100)) /\ path[3] = m
              /\ Len(ev) >= 1
              /\ \A k \in DOMAIN ev :
                    /\ ev[k].method = "setValueAtTime"
                    /\ InNoteSet(ev[k].value)
                    /\ OnGrid(ev[k].time, IF k = 1 THEN 0 ELSE k - 2)
                    /\ k > 1 => BeforeEnd(ev[k].time, dur)
                    /\ k < Len(ev) => TimeLe(ev[k].time, ev[k + 1].time)
                    /\ InNoteSet(FrequencyAt(i, ev[k].time))
              /\ InNoteSet(FrequencyAt(i, [kind |-> "fin", q |-> Q(0, 1),
                                           drift |-> 0]))

\* C21: a resolved 8bit render has exactly one source, a square
\* oscillator through a 0.03 gain into the master, whose frequency is set
\* only by step changes at the accumulated times 0, 0.4, 0.8, ... strictly
\* before the duration, every value and the frequency at every instant
\* being one of 220, 261.63, 329.63, 392
C21_StepSequence ==
    \A c \in RenderCalls :
        (calls[c].pc = "resolved" /\ ResolveProfile(calls[c].style) = "Eightbit")
            => EightbitRecipe(c)

C21_Witness ==
    \E c \in RenderCalls :
        /\ calls[c].pc = "resolved"
        /\ calls[c].style = UiGameboy
        /\ EightbitRecipe(c)
        /\ \E i \in Sources(calls[c].octx) :
              /\ Len(heap[i].events) = 152
              /\ \E k \in DOMAIN heap[i].events :
                    ~QEq(heap[i].events[k].value, heap[i].events[1].value)

\* ---------------------------------------------------------------------
\* C22: the Crystal voices

\* instants sampled inside a ramp
RampDen == 4

Thousandths(v) == (v.n * 1000) \div v.d

RECURSIVE Power(_, _)
Power(b, e) == IF e = 0 THEN 1 ELSE b * Power(b, e - 1)

\* an exponential ramp from v0 to v1 has, a RampDen-ths of the way, the
\* value  v0 * (v1 / v0) ^ (a / RampDen); this is its RampDen-th power in
\* thousandths
RampPower(v0, v1, a) ==
    Power(Thousandths(v0), RampDen - a) * Power(Thousandths(v1), a)

\* the gain of node n starts at v0 at time 0 and falls at every sampled
\* instant until it is v1 at the time dur
DecaysFromTo(n, v0, v1, dur) ==
    LET ev == heap[n].events IN
    /\ heap[n].kind = "Gain" /\ ParamInputs(n, "gain") = {}
    /\ Len(ev) = 2
    /\ ev[1].method = "setValueAtTime"
    /\ QEq(ev[1].value, v0) /\ ev[1].time = Fin(0)
    /\ ev[2].method = "exponentialRampToValueAtTime"
    /\ QEq(ev[2].value, v1) /\ ev[2].time = dur
    /\ dur.kind = "fin" /\ QLt(ev[1].time.q, dur.q)
    /\ Thousandths(ev[1].value) > 0 /\ Thousandths(ev[2].value) > 0
    /\ \A a \in 0..(RampDen - 1) :
          RampPower(ev[1].value, ev[2].value, a)
              > RampPower(ev[1].value, ev[2].value, a + 1)

SpecCrystalFreqs == <<Q(52325, 100), Q(65925, 100), Q(78399, 100), Q(104650, 100)>>
SpecCrystalPans == <<Q(-1, 2), Q(1, 2), Q(-1, 2), Q(1, 2)>>

PlainSine(i) ==
    /\ heap[i].kind = "Oscillator" /\ heap[i].type = "sine"
    /\ heap[i].started /\ heap[i].events = <<>>
    /\ ParamInputs(i, "frequency") = {}

\* source i is the base voice k: through its panner and a 0.04 gain
IsCrystalBase(i, k, m) ==
    LET path == Path(i, m) IN
    /\ PlainSine(i) /\ QEq(heap[i].frequency, SpecCrystalFreqs[k])
    /\ Len(path) = 4
    /\ IsPanner(path[2], SpecCrystalPans[k])
    /\ IsGain(path[3], Q(4, 100))
    /\ path[4] = m

\* source i is the sparkle of base voice k
IsCrystalSparkle(i, k, m, dur) ==
    LET path == Path(i, m) IN
    /\ PlainSine(i)
    /\ QEq(heap[i].frequency, QMul(Q(2, 1), SpecCrystalFreqs[k]))
    /\ Len(path) = 3
    /\ DecaysFromTo(path[2], Q(2, 100), Q(1, 1000), dur)
    /\ path[3] = m

CrystalBases(c, k) ==
    {i \in Sources(calls[c].octx) :
        IsCrystalBase(i, k, MasterOf(calls[c].octx))}

CrystalSparkles(c, k) ==
    {i \in Sources(calls[c].octx) :
        IsCrystalSparkle(i, k, MasterOf(calls[c].octx), calls[c].duration)}

CrystalRecipe(c) ==
    LET S == Sources(calls[c].octx)
        K == DOMAIN SpecCrystalFreqs
    IN  /\ \A k \in K : Cardinality(CrystalBases(c, k)) = 1
        /\ \A k \in K : Cardinality(CrystalSparkles(c, k)) <= 1
        /\ S = UNION {CrystalBases(c, k) \cup CrystalSparkles(c, k) : k \in K}
        /\ Cardinality(S) >= 4 /\ Cardinality(S) <= 8

\* C22: a resolved Crystal render has exactly the four base sines
\* 523.25 / 659.25 / 783.99 / 1046.50 Hz, each through a panner at
\* -0.5, +0.5, -0.5, +0.5 and a 0.04 gain; each base has no or one sparkle
\* sine at twice its frequency whose gain starts at 0.02 at time 0 and
\* falls steadily to 0.001 at the duration; there are no other sources, so
\* between 4 and 8 of them
C22_CrystalRecipe ==
    \A c \in RenderCalls :
        (calls[c].pc = "resolved" /\ ResolveProfile(calls[c].style) = "Crystal")
            => CrystalRecipe(c)

\* a render where the first base has a sparkle and the second has none
C22_Witness ==
    \E c \in RenderCalls :
        /\ calls[c].pc = "resolved"
        /\ calls[c].style = UiCrystal
        /\ CrystalRecipe(c)
        /\ Cardinality(CrystalSparkles(c, 1)) = 1
        /\ CrystalSparkles(c, 2) = {}

\* ---------------------------------------------------------------------
\* C23: the encoder reads its input only, and is repeatable

\* a call of bufferToWave has ended in this step
EncodeStep == encCount' = encCount + 1

Sample16(x) ==
    LET v == ScaleSample(Clamp(x)) % 65536
    IN  IF v >= 32768 THEN v - 65536 ELSE v

\* C24: frame f of channel c of a C-channel buffer is stored little-endian
\* at byte offset 44 + (f * C + c) * 2, the container ends with the last
\* sample, and every byte from offset 44 on has been stored exactly once
C24_Interleaved ==
    Encoded =>
        LET C == abuffer.numberOfChannels
            r == bufferToWave(abuffer, abuffer.length)
        IN  /\ Len(blob) = 44 + abuffer.length * C * 2
            /\ \A p \in SrcPositions :
                  S16At(blob, 44 + (p[2] * C + p[1]) * 2)
                      = Sample16(SrcSample(p[1], p[2]))
            /\ \A k \in 45..Len(blob) : r.written[k] = 1

\* a two-frame stereo buffer whose four samples are all stored differently
C24_Witness ==
    /\ Encoded
    /\ abuffer.numberOfChannels = 2
    /\ abuffer.length = 2
    /\ \A p, q \in SrcPositions :
          p # q => Sample16(SrcSample(p[1], p[2])) # Sample16(SrcSample(q[1], q[2]))
    /\ \A p \in SrcPositions :
          S16At(blob, 44 + (p[2] * 2 + p[1]) * 2) = Sample16(SrcSample(p[1], p[2]))

----------------------------------------------------------------------------
(* The wish wizard of IntentView: the IntentState kept by App, the          *)
(* component's own hooks, the playback sources, and the handlers that are   *)
(* waiting on a promise or a timer.  A handler keeps the values of the      *)
(* render it was created in (its closure); setState(prev => ...) works on   *)
(* the state of the moment.                                                 *)

\* bounds of the wizard model
MaxTasks == 1           \* handlers waiting at a time
MaxSaved == 1           \* wishes handed to onComplete

\* the style buttons pressed in the model
WizardStyles == {UiAmbient, UiWitch}

NoWish ==
    [subliminalAudioBlob |-> NullAudio, voiceAudioBlob |-> NullAudio,
     musicAudioBlob |-> NullAudio, themeMusicType |-> <<>>, mixingMode |-> ""]

\* the playback hooks and the sources as one value
Playback == [sources |-> sources, audioSource |-> audioSource, isPlaying |-> isPlaying]

SetPlayback(a) ==
    /\ sources' = a.sources
    /\ audioSource' = a.audioSource
    /\ isPlaying' = a.isPlaying

\* what a handler created in the current render sees; live is false once
\* the component it belongs to is unmounted, whose setters do nothing
Closure == [isPlaying |-> isPlaying, audioSource |-> audioSource, live |-> TRUE]

\* const stopAudio = () => { if (audioSource) { try { audioSource.stop() }
\* catch(e) {} setAudioSource(null) } setIsPlaying(false) }
\* A one-shot source that is stopped fires its onended.
stopAudio(a, cl) ==
    LET n == cl.audioSource
        ended == n # 0 /\ a.sources[n].on /\ ~a.sources[n].loop /\ a.sources[n].live
    IN  [sources |-> IF n # 0 THEN [a.sources EXCEPT ![n] = NoSource]
                     ELSE a.sources,
         audioSource |-> IF n # 0 /\ cl.live THEN 0 ELSE a.audioSource,
         isPlaying |-> IF cl.live \/ ended THEN FALSE ELSE a.isPlaying]

\* a source object not in use: not sounding and held by nobody
Unused(n) ==
    /\ ~sources[n].on
    /\ audioSource # n
    /\ \A t \in DOMAIN tasks : tasks[t].cl.audioSource # n

\* playBuffer takes the playing branch, or there is a source to create
CanPlay(cl) == cl.isPlaying \/ \E n \in 1..MaxSources : Unused(n)

\* const playBuffer = (buffer, loop) => { if (isPlaying) { stopAudio();
\* return } ... source.start(); setAudioSource(source); setIsPlaying(true) }
playBuffer(a, cl, loop) ==
    IF cl.isPlaying THEN stopAudio(a, cl)
    ELSE LET n == CHOOSE k \in 1..MaxSources :
                      Unused(k) /\ \A j \in 1..(k - 1) : ~Unused(j)
         IN  [sources |-> [a.sources EXCEPT
                              ![n] = [on |-> TRUE, loop |-> loop, live |-> cl.live]],
              audioSource |-> IF cl.live THEN n ELSE a.audioSource,
              isPlaying |-> IF cl.live THEN TRUE ELSE a.isPlaying]

\* the part of the closure a handler reads after its await when all it
\* does then is playBuffer: audioSource is read only if isPlaying was true
PlayClosure ==
    IF isPlaying THEN Closure
    ELSE [isPlaying |-> FALSE, audioSource |-> 0, live |-> TRUE]

\* a handler that reads neither hook after its await
NoClosure == [isPlaying |-> FALSE, audioSource |-> 0, live |-> TRUE]

\* a handler waiting on a promise or a timer, with what it will read of
\* the state of its render: the music style, the mixing mode, the
\* narration, the Wish
Task(kind, pc, s, mode, voice, wish, cl) ==
    [kind |-> kind, pc |-> pc, style |-> s, mode |-> mode, voice |-> voice,
     wish |-> wish, cl |-> cl]

Without(t) == [k \in 1..(Len(tasks) - 1) |-> IF k < t THEN tasks[k] ELSE tasks[k + 1]]

Waiting(t, kind, pc) ==
    t \in DOMAIN tasks /\ tasks[t].kind = kind /\ tasks[t].pc = pc

\* setIsLoading of the component the handler belongs to
SetIsLoading(cl, v) == isLoading' = IF cl.live THEN v ELSE isLoading

Room == Len(tasks) < MaxTasks

SetStep(s) == state' = [state EXCEPT !.step = s]

\* the wish is sent: the chat opens (the reply only adds a message); no
\* further wish is begun once MaxSaved wishes are saved
handleStartDeepDive ==
    /\ state.step = "input"
    /\ Len(saved) < MaxSaved
    /\ SetStep("deep-dive")
    /\ UNCHANGED <<voiceMode, isLoading, isPlaying, audioSource, sources,
                   tasks, saved, baseVars, ritualVars>>

\* the blueprint button of the chat, disabled={isLoading}
handleStartWizard ==
    /\ state.step = "deep-dive" /\ ~isLoading /\ Room
    /\ isLoading' = TRUE
    /\ tasks' = Append(tasks, Task("startWizard", "await", <<>>, "", NullAudio, NoWish, NoClosure))
    /\ UNCHANGED <<state, voiceMode, isPlaying, audioSource, sources, saved,
                   baseVars, ritualVars>>

\* try { await ...; setState(step: 'affirmation-select') } catch {}
\* finally { setIsLoading(false) }
StartWizardDone(t, ok) ==
    /\ Waiting(t, "startWizard", "await")
    /\ state' = IF ok THEN [state EXCEPT !.step = "affirmation-select"] ELSE state
    /\ SetIsLoading(tasks[t].cl, FALSE)
    /\ tasks' = Without(t)
    /\ UNCHANGED <<voiceMode, isPlaying, audioSource, sources, saved,
                   baseVars, ritualVars>>

\* the footer's back button
Back ==
    /\ state.step \in {"affirmation-select", "voice-gen", "music-gen", "subliminal-mix"}
    /\ SetPlayback(stopAudio(Playback, Closure))
    /\ SetStep(CASE state.step = "affirmation-select" -> "deep-dive"
                 [] state.step = "voice-gen" -> "affirmation-select"
                 [] state.step = "music-gen" -> "voice-gen"
                 [] state.step = "subliminal-mix" -> "music-gen")
    /\ UNCHANGED <<voiceMode, isLoading, tasks, saved, baseVars, ritualVars>>

\* mutation: the next button of the voice step is never disabled
MutNextEnabled(step) == TRUE

\* the footer's next button of a step: shown, and not disabled
NextEnabled(step) ==
    CASE step = "affirmation-select" -> TRUE
      [] step = "voice-gen" -> state.generatedVoiceAudio # NullAudio
      [] step = "music-gen" -> state.generatedMusicAudio # NullAudio
      [] OTHER -> FALSE

NextStep ==
    /\ state.step \in {"affirmation-select", "voice-gen", "music-gen"}
    /\ NextEnabled(state.step)
    /\ SetPlayback(stopAudio(Playback, Closure))
    /\ SetStep(CASE state.step = "affirmation-select" -> "voice-gen"
                 [] state.step = "voice-gen" -> "music-gen"
                 [] state.step = "music-gen" -> "subliminal-mix")
    /\ UNCHANGED <<voiceMode, isLoading, tasks, saved, baseVars, ritualVars>>

\* the two voice mode buttons
SetVoiceMode(m) ==
    /\ state.step = "voice-gen"
    /\ voiceMode' = m
    /\ SetPlayback(stopAudio(Playback, Closure))
    /\ state' = [state EXCEPT !.generatedVoiceAudio = NullAudio]
    /\ UNCHANGED <<isLoading, tasks, saved, baseVars, ritualVars>>

\* the reset / record-again link under a narration
ResetVoice ==
    /\ state.step = "voice-gen"
    /\ state.generatedVoiceAudio # NullAudio
    /\ state' = [state EXCEPT !.generatedVoiceAudio = NullAudio]
    /\ UNCHANGED <<voiceMode, isLoading, isPlaying, audioSource, sources,
                   tasks, saved, baseVars, ritualVars>>

handleVoiceGen ==
    /\ state.step = "voice-gen" /\ voiceMode = "ai"
    /\ state.generatedVoiceAudio = NullAudio
    /\ ~isLoading /\ Room
    /\ SetPlayback(stopAudio(Playback, Closure))
    /\ isLoading' = TRUE
    /\ tasks' = Append(tasks, Task("voiceGen", "await", <<>>, "", NullAudio, NoWish, PlayClosure))
    /\ UNCHANGED <<state, voiceMode, saved, baseVars, ritualVars>>

\* generateTTS has returned a buffer (ok) or null
VoiceGenDone(t, ok) ==
    /\ Waiting(t, "voiceGen", "await")
    /\ IF ok
       THEN /\ CanPlay(tasks[t].cl)
            /\ state' = [state EXCEPT
                            !.generatedVoiceAudio = Audio("voice", <<>>, "", "")]
            /\ SetPlayback(playBuffer(Playback, tasks[t].cl, FALSE))
       ELSE UNCHANGED <<state, isPlaying, audioSource, sources>>
    /\ SetIsLoading(tasks[t].cl, FALSE)
    /\ tasks' = Without(t)
    /\ UNCHANGED <<voiceMode, saved, baseVars, ritualVars>>

\* the recorder is stopped: its onstop reads and decodes the recording
stopRecording ==
    /\ state.step = "voice-gen" /\ voiceMode = "user"
    /\ state.generatedVoiceAudio = NullAudio
    /\ Room
    /\ tasks' = Append(tasks, Task("decodeVoice", "await", <<>>, "", NullAudio, NoWish, NoClosure))
    /\ UNCHANGED <<state, voiceMode, isLoading, isPlaying, audioSource,
                   sources, saved, baseVars, ritualVars>>

RecordingDecoded(t, ok) ==
    /\ Waiting(t, "decodeVoice", "await")
    /\ state' = IF ok
                THEN [state EXCEPT
                         !.generatedVoiceAudio = Audio("voice", <<>>, "", "")]
                ELSE state
    /\ tasks' = Without(t)
    /\ UNCHANGED <<voiceMode, isLoading, isPlaying, audioSource, sources,
                   saved, baseVars, ritualVars>>

\* the play / pause button of the narration
PlayVoice ==
    /\ state.step = "voice-gen"
    /\ state.generatedVoiceAudio # NullAudio
    /\ CanPlay(Closure)
    /\ SetPlayback(playBuffer(Playback, Closure, FALSE))
    /\ UNCHANGED <<state, voiceMode, isLoading, tasks, saved, baseVars, ritualVars>>

\* a style button
SelectMusicStyle(s) ==
    /\ state.step = "music-gen"
    /\ SetPlayback(stopAudio(Playback, Closure))
    /\ state' = [state EXCEPT !.selectedMusicStyle = s,
                              !.generatedMusicAudio = NullAudio]
    /\ UNCHANGED <<voiceMode, isLoading, tasks, saved, baseVars, ritualVars>>

\* the preview button, disabled={!state.selectedMusicStyle || isLoading},
\* or the regenerate button shown next to a preview, which is never disabled
handleMusicGen ==
    /\ state.step = "music-gen"
    /\ IF state.generatedMusicAudio = NullAudio
       THEN state.selectedMusicStyle # <<>> /\ ~isLoading
       ELSE TRUE
    /\ Room
    /\ SetPlayback(stopAudio(Playback, Closure))
    /\ isLoading' = TRUE
    /\ tasks' = Append(tasks, Task("musicGen", "await", state.selectedMusicStyle, "", NullAudio, NoWish,
                                  PlayClosure))
    /\ UNCHANGED <<state, voiceMode, saved, baseVars, ritualVars>>

\* generateSynthesizedMusic has resolved (ok) or rejected; nothing catches
\* the rejection
MusicGenDone(t, ok) ==
    /\ Waiting(t, "musicGen", "await")
    /\ IF ok
       THEN /\ CanPlay(tasks[t].cl)
            /\ state' = [state EXCEPT !.generatedMusicAudio =
                            Audio("music", tasks[t].style, "", "")]
            /\ SetPlayback(playBuffer(Playback, tasks[t].cl, TRUE))
            /\ SetIsLoading(tasks[t].cl, FALSE)
       ELSE UNCHANGED <<state, isPlaying, audioSource, sources, isLoading>>
    /\ tasks' = Without(t)
    /\ UNCHANGED <<voiceMode, saved, baseVars, ritualVars>>

\* the play / pause button of the preview
PlayMusic ==
    /\ state.step = "music-gen"
    /\ state.generatedMusicAudio # NullAudio
    /\ CanPlay(Closure)
    /\ SetPlayback(playBuffer(Playback, Closure, TRUE))
    /\ UNCHANGED <<state, voiceMode, isLoading, tasks, saved, baseVars, ritualVars>>

\* a mixing mode button
SelectMode(m) ==
    /\ state.step = "subliminal-mix"
    /\ state' = [state EXCEPT !.mixingMode = m]
    /\ UNCHANGED <<voiceMode, isLoading, isPlaying, audioSource, sources,
                   tasks, saved, baseVars, ritualVars>>

\* the mix button, disabled={isLoading}
handleMixing ==
    /\ state.step = "subliminal-mix" /\ ~isLoading /\ Room
    /\ SetPlayback(stopAudio(Playback, Closure))
    /\ isLoading' = TRUE
    /\ tasks' = Append(tasks, Task("mixing", "await", state.selectedMusicStyle,
                                  state.mixingMode, state.generatedVoiceAudio,
                                  NoWish, PlayClosure))
    /\ UNCHANGED <<state, voiceMode, saved, baseVars, ritualVars>>

\* the music render and the mix render have resolved (ok), or one of them
\* has rejected; nothing catches the rejection
MixingDone(t, ok) ==
    /\ Waiting(t, "mixing", "await")
    /\ IF ok
       THEN /\ CanPlay(tasks[t].cl)
            /\ state' = [state EXCEPT !.finalSubliminalAudio =
                            Audio("mix", <<>>, tasks[t].mode, "")]
            /\ SetPlayback(playBuffer(Playback, tasks[t].cl, TRUE))
            /\ SetIsLoading(tasks[t].cl, FALSE)
       ELSE UNCHANGED <<state, isPlaying, audioSource, sources, isLoading>>
    /\ tasks' = Without(t)
    /\ UNCHANGED <<voiceMode, saved, baseVars, ritualVars>>

\* the listen button under a finished mix: stops, or reads and decodes
\* the container and plays it when that is done
PreviewMix ==
    /\ state.step = "subliminal-mix"
    /\ state.finalSubliminalAudio # NullAudio
    /\ IF isPlaying
       THEN /\ SetPlayback(stopAudio(Playback, Closure))
            /\ UNCHANGED tasks
       ELSE /\ Room
            /\ tasks' = Append(tasks, Task("decodeMix", "await", <<>>, "", NullAudio, NoWish, PlayClosure))
            /\ UNCHANGED <<isPlaying, audioSource, sources>>
    /\ UNCHANGED <<state, voiceMode, isLoading, saved, baseVars, ritualVars>>

PreviewDecoded(t) ==
    /\ Waiting(t, "decodeMix", "await")
    /\ CanPlay(tasks[t].cl)
    /\ SetPlayback(playBuffer(Playback, tasks[t].cl, TRUE))
    /\ tasks' = Without(t)
    /\ UNCHANGED <<state, voiceMode, isLoading, saved, baseVars, ritualVars>>

\* the Wish handleSave builds from the state of its render
NewWish(st) ==
    [subliminalAudioBlob |-> st.finalSubliminalAudio,
     voiceAudioBlob |-> st.generatedVoiceAudio,
     musicAudioBlob |-> st.generatedMusicAudio,
     themeMusicType |-> st.selectedMusicStyle,
     mixingMode |-> st.mixingMode]

\* the save button, disabled={!state.finalSubliminalAudio || isLoading}
handleSave ==
    /\ state.step = "subliminal-mix"
    /\ state.finalSubliminalAudio # NullAudio
    /\ ~isLoading /\ Room
    /\ SetPlayback(stopAudio(Playback, Closure))
    /\ isLoading' = TRUE
    /\ tasks' = Append(tasks, Task("save", "await", <<>>, "", NullAudio, NewWish(state), NoClosure))
    /\ UNCHANGED <<state, voiceMode, saved, baseVars, ritualVars>>

\* generateBeliefMapAndTags has returned (it catches its own errors): the
\* Wish is built from the state of the handler's render and the 800 ms
\* timer set
SaveAwaited(t) ==
    /\ Waiting(t, "save", "await")
    /\ tasks' = [tasks EXCEPT ![t].pc = "timer"]
    /\ UNCHANGED <<state, voiceMode, isLoading, isPlaying, audioSource,
                   sources, saved, baseVars, ritualVars>>

\* the timer: onComplete(newWish), setIsLoading(false), the state reset
SaveTimer(t) ==
    /\ Waiting(t, "save", "timer")
    /\ Len(saved) < MaxSaved
    /\ saved' = Append(saved, tasks[t].wish)
    /\ SetIsLoading(tasks[t].cl, FALSE)
    /\ state' = InitialIntentState
    /\ tasks' = Without(t)
    /\ UNCHANGED <<voiceMode, isPlaying, audioSource, sources, baseVars, ritualVars>>

\* a one-shot source plays to its end: onended, if (!loop) setIsPlaying(false)
SourceEnded(n) ==
    /\ sources[n].on /\ ~sources[n].loop
    /\ sources' = [sources EXCEPT ![n] = NoSource]
    /\ isPlaying' = IF sources[n].live THEN FALSE ELSE isPlaying
    /\ UNCHANGED <<state, voiceMode, isLoading, audioSource, tasks, saved,
                   baseVars, ritualVars>>

\* App shows another view and comes back: IntentView is unmounted (its
\* cleanup is the stopAudio of the first render, whose audioSource is
\* null) and mounted anew; intentState stays in App
Remount ==
    /\ tasks' = [t \in DOMAIN tasks |-> [tasks[t] EXCEPT !.cl.live = FALSE]]
    /\ sources' = [n \in DOMAIN sources |-> [sources[n] EXCEPT !.live = FALSE]]
    /\ isLoading' = FALSE
    /\ isPlaying' = FALSE
    /\ audioSource' = 0
    /\ voiceMode' = "ai"
    /\ UNCHANGED <<state, saved, baseVars, ritualVars>>

InitWizard ==
    /\ WizardIdle
    /\ RitualIdle
    /\ AudioIdle
    /\ abuffer = [numberOfChannels |-> 1, sampleRate |-> 24000, length |-> 0,
                  channelData |-> <<ChannelData(0, 0)>>]
    /\ blob = <<>>
    /\ encPc = "ready"
    /\ encCount = 0
    /\ style = <<>>
    /\ profile = "none"

NextWizard ==
    \/ handleStartDeepDive
    \/ handleStartWizard
    \/ \E t \in DOMAIN tasks, ok \in BOOLEAN : StartWizardDone(t, ok)
    \/ Back
    \/ NextStep
    \/ \E m \in {"ai", "user"} : SetVoiceMode(m)
    \/ ResetVoice
    \/ handleVoiceGen
    \/ \E t \in DOMAIN tasks, ok \in BOOLEAN : VoiceGenDone(t, ok)
    \/ stopRecording
    \/ \E t \in DOMAIN tasks, ok \in BOOLEAN : RecordingDecoded(t, ok)
    \/ PlayVoice
    \/ \E s \in WizardStyles : SelectMusicStyle(s)
    \/ handleMusicGen
    \/ \E t \in DOMAIN tasks, ok \in BOOLEAN : MusicGenDone(t, ok)
    \/ PlayMusic
    \/ \E m \in Modes : SelectMode(m)
    \/ handleMixing
    \/ \E t \in DOMAIN tasks, ok \in BOOLEAN : MixingDone(t, ok)
    \/ PreviewMix
    \/ \E t \in DOMAIN tasks : PreviewDecoded(t)
    \/ handleSave
    \/ \E t \in DOMAIN tasks : SaveAwaited(t)
    \/ \E t \in DOMAIN tasks : SaveTimer(t)
    \/ \E n \in 1..MaxSources : SourceEnded(n)
    \/ Remount

SpecWizard == InitWizard /\ [][NextWizard]_vars

----------------------------------------------------------------------------
(* Claims about the wish wizard                                             *)

\* C25: whenever a music preview is stored it was synthesized from the
\* style that is selected, whatever style buttons were pressed while
\* handleMusicGen was waiting; and the musicAudioBlob of a saved Wish was
\* rendered from the style recorded in its themeMusicType.
C25_PreviewOfSelectedStyle ==
    /\ state.generatedMusicAudio # NullAudio =>
           state.generatedMusicAudio.style = state.selectedMusicStyle
    /\ \A w \in DOMAIN saved :
           saved[w].musicAudioBlob # NullAudio =>
               saved[w].musicAudioBlob.style = saved[w].themeMusicType

\* C26: the mixingMode recorded in a saved Wish is the mode its
\* subliminalAudioBlob was mixed in.
C26_RecordedMode ==
    \A w \in DOMAIN saved :
        saved[w].subliminalAudioBlob # NullAudio =>
            saved[w].subliminalAudioBlob.mode = saved[w].mixingMode

\* C27: every source the mounted IntentView has started and that has
\* neither been stopped nor ended is the one held in audioSource, so at
\* most one is sounding and stopAudio silences all playback.
C27_OneSourceSounding ==
    \A n \in 1..MaxSources :
        sources[n].on /\ sources[n].live => audioSource = n

\* C28: every operation that set isLoading has set it back once it is
\* over, also when what it awaited failed: with no handler waiting,
\* isLoading is false.
C28_LoadingCleared == tasks = <<>> => ~isLoading

\* C29: at the steps music-gen and subliminal-mix there is a narration, at
\* subliminal-mix there is a music preview; handleMixing is never started
\* without a narration, and every saved Wish holds a finished mix.
C29_StepsHaveBuffers ==
    /\ state.step \in {"music-gen", "subliminal-mix"} =>
           state.generatedVoiceAudio # NullAudio
    /\ state.step = "subliminal-mix" => state.generatedMusicAudio # NullAudio
    /\ \A t \in DOMAIN tasks :
           tasks[t].kind = "mixing" => tasks[t].voice # NullAudio
    /\ \A w \in DOMAIN saved : saved[w].subliminalAudioBlob # NullAudio

\* a Wish has been saved, after the narration, the preview and the mix
C29_Witness ==
    /\ saved # <<>>
    /\ saved[1].voiceAudioBlob # NullAudio
    /\ saved[1].musicAudioBlob # NullAudio
    /\ saved[1].subliminalAudioBlob.kind = "mix"

----------------------------------------------------------------------------
(* The tarot draw of RitualView: its hooks, the timers and calls that are   *)
(* waiting, the readings requested, and the reading kept in localStorage.   *)

\* bounds of the tarot model
DeckSize == 3           \* cards of the spread (78 in generateTarotDeck)
MaxDraws == 1           \* draws completed by a third card
MaxTimers == 1          \* timers and calls waiting at a time

Positions == <<"body", "mind", "spirit">>

\* the cards handed to generateTarotReading: position by place in the draw
DrawnCards(newSelected) ==
    [i \in DOMAIN newSelected |->
        [index |-> newSelected[i],
         position |-> IF i = 1 THEN "body" ELSE IF i = 2 THEN "mind" ELSE "spirit"]]

Timer(kind, newSelected) == [kind |-> kind, newSelected |-> newSelected, live |-> TRUE]

Pending(t, kind) == t \in DOMAIN timers /\ timers[t].kind = kind

Done(t) == [k \in 1..(Len(timers) - 1) |-> IF k < t THEN timers[k] ELSE timers[k + 1]]

\* a setter of the component instance the timer belongs to
Hook(t, old, new) == IF timers[t].live THEN new ELSE old

\* the deck card of the start view, shown while !hasShuffled && !loading &&
\* !reading and covered by the spinner overlay while isShuffling
handleShuffle ==
    /\ ~hasShuffled /\ ~loading /\ reading = 0 /\ ~isShuffling
    /\ Len(timers) < MaxTimers
    /\ isShuffling' = TRUE
    /\ reading' = 0
    /\ selectedIndices' = <<>>
    /\ isRevealing' = FALSE
    /\ timers' = Append(timers, Timer("shuffle", <<>>))
    /\ UNCHANGED <<hasShuffled, loading, requests, stored, draws,
                   baseVars, wizardVars>>

\* the 1000 ms timer of handleShuffle
ShuffleTimer(t) ==
    /\ Pending(t, "shuffle")
    /\ isShuffling' = Hook(t, isShuffling, FALSE)
    /\ hasShuffled' = Hook(t, hasShuffled, TRUE)
    /\ timers' = Done(t)
    /\ UNCHANGED <<selectedIndices, isRevealing, loading, reading, requests,
                   stored, draws, baseVars, wizardVars>>

\* mutation: the guard does not look at the cards already taken
MutCardBlocked(index) == isRevealing \/ loading

\* if (selectedIndices.length >= 3 || selectedIndices.includes(index) ||
\*     isRevealing || loading) return;
CardBlocked(index) ==
    \/ Len(selectedIndices) >= 3
    \/ \E i \in DOMAIN selectedIndices : selectedIndices[i] = index
    \/ isRevealing
    \/ loading

\* a card of the spread, shown while hasShuffled && !reading && !loading
handleCardClick(index) ==
    /\ hasShuffled /\ reading = 0 /\ ~loading
    /\ IF CardBlocked(index)
       THEN UNCHANGED <<selectedIndices, isRevealing, timers, draws>>
       ELSE LET newSelected == Append(selectedIndices, index) IN
            /\ selectedIndices' = newSelected
            /\ IF Len(newSelected) = 3
               THEN /\ draws < MaxDraws /\ Len(timers) < MaxTimers
                    /\ isRevealing' = TRUE
                    /\ timers' = Append(timers, Timer("reveal", newSelected))
                    /\ draws' = draws + 1
               ELSE UNCHANGED <<isRevealing, timers, draws>>
    /\ UNCHANGED <<hasShuffled, isShuffling, loading, reading, requests,
                   stored, baseVars, wizardVars>>

\* the 3000 ms timer of the third card: setLoading(true) and the call of
\* generateTarotReading
RevealTimer(t) ==
    /\ Pending(t, "reveal")
    /\ loading' = Hook(t, loading, TRUE)
    /\ requests' = Append(requests, DrawnCards(timers[t].newSelected))
    /\ timers' = [timers EXCEPT ![t].kind = "reading"]
    /\ UNCHANGED <<hasShuffled, isShuffling, selectedIndices, isRevealing,
                   reading, stored, draws, baseVars, wizardVars>>

\* the reading has come: setReading, localStorage.setItem, and the call of
\* generateDailyPractice; a reply without cards (wellFormed false) throws
\* in the callback before that call
ReadingDone(t, wellFormed) ==
    /\ Pending(t, "reading")
    /\ reading' = Hook(t, reading, Len(requests))
    /\ stored' = Len(requests)
    /\ timers' = IF wellFormed THEN [timers EXCEPT ![t].kind = "practice"]
                 ELSE Done(t)
    /\ UNCHANGED <<hasShuffled, isShuffling, selectedIndices, isRevealing,
                   loading, requests, draws, baseVars, wizardVars>>

\* the practice has come: setPractice, setLoading(false), setIsRevealing(false)
PracticeDone(t) ==
    /\ Pending(t, "practice")
    /\ loading' = Hook(t, loading, FALSE)
    /\ isRevealing' = Hook(t, isRevealing, FALSE)
    /\ timers' = Done(t)
    /\ UNCHANGED <<hasShuffled, isShuffling, selectedIndices, reading,
                   requests, stored, draws, baseVars, wizardVars>>

\* the new-reading button under a reading
resetTarot ==
    /\ reading # 0
    /\ hasShuffled' = FALSE
    /\ selectedIndices' = <<>>
    /\ reading' = 0
    /\ isRevealing' = FALSE
    /\ stored' = 0
    /\ UNCHANGED <<isShuffling, loading, timers, requests, draws,
                   baseVars, wizardVars>>

\* the journal tab shares the loading hook: disabled={loading || ...}
handleJournalSubmit ==
    /\ ~loading
    /\ Len(timers) < MaxTimers
    /\ loading' = TRUE
    /\ timers' = Append(timers, Timer("journal", <<>>))
    /\ UNCHANGED <<hasShuffled, isShuffling, selectedIndices, isRevealing,
                   reading, requests, stored, draws, baseVars, wizardVars>>

JournalDone(t) ==
    /\ Pending(t, "journal")
    /\ loading' = Hook(t, loading, FALSE)
    /\ timers' = Done(t)
    /\ UNCHANGED <<hasShuffled, isShuffling, selectedIndices, isRevealing,
                   reading, requests, stored, draws, baseVars, wizardVars>>

\* App shows another view and comes back: RitualView is mounted anew, its
\* mount effect taking today's reading from localStorage
RitualRemount ==
    /\ timers' = [t \in DOMAIN timers |-> [timers[t] EXCEPT !.live = FALSE]]
    /\ loading' = FALSE
    /\ isShuffling' = FALSE
    /\ isRevealing' = FALSE
    /\ selectedIndices' = <<>>
    /\ reading' = stored
    /\ hasShuffled' = (stored # 0)
    /\ UNCHANGED <<requests, stored, draws, baseVars, wizardVars>>

InitRitual ==
    /\ RitualIdle
    /\ WizardIdle
    /\ AudioIdle
    /\ abuffer = [numberOfChannels |-> 1, sampleRate |-> 24000, length |-> 0,
                  channelData |-> <<ChannelData(0, 0)>>]
    /\ blob = <<>>
    /\ encPc = "ready"
    /\ encCount = 0
    /\ style = <<>>
    /\ profile = "none"

NextRitual ==
    \/ handleShuffle
    \/ \E t \in DOMAIN timers : ShuffleTimer(t)
    \/ \E index \in 0..(DeckSize - 1) : handleCardClick(index)
    \/ \E t \in DOMAIN timers : RevealTimer(t)
    \/ \E t \in DOMAIN timers, wellFormed \in BOOLEAN : ReadingDone(t, wellFormed)
    \/ \E t \in DOMAIN timers : PracticeDone(t)
    \/ resetTarot
    \/ handleJournalSubmit
    \/ \E t \in DOMAIN timers : JournalDone(t)
    \/ RitualRemount

SpecRitual == InitRitual /\ [][NextRitual]_vars

----------------------------------------------------------------------------
(* Claims about the tarot draw                                              *)

\* the reading requests made and still to be made by a reveal timer
RevealsPending == {t \in DOMAIN timers : timers[t].kind = "reveal"}

C30_State ==
    /\ Len(selectedIndices) <= 3
    /\ \A i, j \in DOMAIN selectedIndices :
           i # j => selectedIndices[i] # selectedIndices[j]
    /\ Len(requests) + Cardinality(RevealsPending) = draws
    /\ \A t \in RevealsPending :
           timers[t].live => timers[t].newSelected = selectedIndices
    /\ \A r \in DOMAIN requests :
           /\ Len(requests[r]) = 3
           /\ \A i \in 1..3 : requests[r][i].position = Positions[i]
           /\ \A i, j \in 1..3 : i # j => requests[r][i].index # requests[r][j].index

====
